---------------------------- MODULE Spec2Model ----------------------------
(***************************************************************************)
(* A model of the ARFab upload core: the GLB container reader and the      *)
(* upload route (src/app/api/upload/route.ts), the accessor-bounds patch   *)
(* of the optimizer (src/lib/glb-optimize.ts) and the IFC text parser      *)
(* (src/lib/ifc-parser.ts).                                                *)
(*                                                                         *)
(* Bytes are naturals 0..255, a buffer is a sequence of bytes.  Offsets    *)
(* are 0-based as in the source; the sequence index of offset o is o + 1.  *)
(* Text is a sequence of one-character strings.                            *)
(***************************************************************************)
EXTENDS Integers, Sequences, FiniteSets, TLC

VARIABLES
    \* parseGlbAnnotations applied to one buffer
    buffer,        \* the input Buffer
    glbPc,         \* "input" before the call, "done" after it
    glbOut,        \* what the call did: threw / annotations / offsets read
    \* POST /api/upload, one request at a time
    upPc,          \* position of the handler between its awaits
    upFile,        \* the uploaded file's bytes (formData 'file')
    upSheet,       \* formData 'sheet_number' after trim, "" for null
    upBuffer,      \* let buffer
    upParse,       \* "none", "ok" or "threw": outcome of parseGlbAnnotations
    upAnnotations, \* let annotations
    upParentId,    \* let parentId, 0 for null
    upModelData,   \* the inserted row's id, 0 when the insert failed
    upStorageError,\* storageError of the storage upload
    upDbError,     \* dbError of the insert
    upResponse,    \* HTTP status returned, 0 while running
    upCount,       \* requests handled so far
    storage,       \* bucket 'models': the set of stored objects
    models,        \* table 'models': the sequence of rows, in created_at order
    upIfcFile,     \* formData 'ifc'
    upIfcElements, \* let ifcElements
    upIfcEnriched, \* let ifcEnriched
    upGlbOnly,     \* const glbOnly
    upBody,        \* the body of a 200 response, <<>> otherwise
    \* patchAccessorBounds applied to one written container
    patchIn,       \* the container handed to the pass, as its parts
    patchPc,       \* "input" before the call, "done" after it
    patchOut,      \* what the call returned or that it threw
    \* parseArgs applied to one argument text
    raw,           \* the argument text
    argPc,         \* "input" before the call, "done" after it
    args,          \* the returned arguments
    \* parseIfcBuffer applied to one exchange file
    ifcText,       \* the file's text
    ifcPc,         \* "input" before the call, "done" after it
    ifcOut,        \* the entity table and the returned elements
    \* the node loop of parseGlbAnnotations applied to one parsed document
    nodeDoc,       \* const gltf
    nodePc,        \* "input" before the loop, "done" after it
    nodeOut,       \* the annotations pushed, or that the loop threw
    \* optimizeGlbForAR applied to one container
    optIn,         \* the module run, the document of inputBuffer, colorMap
    optPc,         \* "read", "transform", "write", then "done" or "threw"
    optDoc,        \* const document
    optRan,        \* the transforms document.transform has called, in order
    optFailed,     \* the transforms that threw
    \* convertGlbToUsdz applied to one document
    usdIn,          \* the document read from glbBuffer
    usdPc,          \* "input" before the call, "done" after it
    usdOut,         \* the mesh and material definitions pushed
    \* createUsdzZip applied to one text
    zipIn,          \* usda
    zipPc,          \* "input" before the call, "done" after it
    zipOut,         \* the returned archive
    \* POST /api/upload run by several requests at once, from the parent lookup on
    rcPc,           \* the position of each request: "lookup", "insert", "update", "done", "failed"
    rcSheet,        \* sheetNumber of each request
    rcParentId,     \* let parentId of each request, 0 for null
    rcModelData,    \* the id of the row each request inserted, 0 for none
    rcModels,       \* table 'models' of one company, in created_at order
    \* the AR viewer component (ARViewer.tsx)
    arXr,           \* navigator.xr is defined
    arSupported,    \* the supported state: "null", TRUE or FALSE
    arPc,           \* where each call of startAR stands
    arSession,      \* the XRSession each call obtained: "none", "active", "ending", "ended"
    arListeners,    \* whether the call has added its select and end listeners
    arIsPlaced,     \* the isPlaced local of each call
    arSessionRef,   \* sessionRef.current: 0 for null, or the call whose session it holds
    arActive,       \* the active state
    arPlaced        \* the placed state

glbVars == <<buffer, glbPc, glbOut>>
upVars == <<upPc, upFile, upSheet, upBuffer, upParse, upAnnotations, upParentId,
            upModelData, upStorageError, upDbError, upResponse, upCount, storage,
            models, upIfcFile, upIfcElements, upIfcEnriched, upGlbOnly, upBody>>
\* the exchange-file part of a request
upIfcVars == <<upIfcFile, upIfcElements, upIfcEnriched, upGlbOnly>>
patchVars == <<patchIn, patchPc, patchOut>>
argVars == <<raw, argPc, args>>
ifcVars == <<ifcText, ifcPc, ifcOut>>
nodeVars == <<nodeDoc, nodePc, nodeOut>>
optVars == <<optIn, optPc, optDoc, optRan, optFailed>>
usdVars == <<usdIn, usdPc, usdOut>>
zipVars == <<zipIn, zipPc, zipOut>>
rcVars == <<rcPc, rcSheet, rcParentId, rcModelData, rcModels>>
arVars == <<arXr, arSupported, arPc, arSession, arListeners, arIsPlaced, arSessionRef, arActive, arPlaced>>
vars == <<glbVars, upVars, patchVars, argVars, ifcVars, nodeVars, optVars, usdVars, zipVars, rcVars, arVars>>

\* what the actions of one part leave alone
exceptGlb == <<upVars, patchVars, argVars, ifcVars, nodeVars, optVars, usdVars, zipVars, rcVars, arVars>>
exceptUpload == <<glbVars, patchVars, argVars, ifcVars, nodeVars, optVars, usdVars, zipVars, rcVars, arVars>>
exceptPatch == <<glbVars, upVars, argVars, ifcVars, nodeVars, optVars, usdVars, zipVars, rcVars, arVars>>
exceptArgs == <<glbVars, upVars, patchVars, ifcVars, nodeVars, optVars, usdVars, zipVars, rcVars, arVars>>
exceptIfc == <<glbVars, upVars, patchVars, argVars, nodeVars, optVars, usdVars, zipVars, rcVars, arVars>>
exceptNodes == <<glbVars, upVars, patchVars, argVars, ifcVars, optVars, usdVars, zipVars, rcVars, arVars>>
exceptOptimize == <<glbVars, upVars, patchVars, argVars, ifcVars, nodeVars, usdVars, zipVars, rcVars, arVars>>
exceptUsdz == <<glbVars, upVars, patchVars, argVars, ifcVars, nodeVars, optVars, zipVars, rcVars, arVars>>
exceptZip == <<glbVars, upVars, patchVars, argVars, ifcVars, nodeVars, optVars, usdVars, rcVars, arVars>>
exceptRace == <<glbVars, upVars, patchVars, argVars, ifcVars, nodeVars, optVars, usdVars, zipVars, arVars>>
exceptAR == <<glbVars, upVars, patchVars, argVars, ifcVars, nodeVars, optVars, usdVars, zipVars, rcVars>>

-----------------------------------------------------------------------------
(* Helpers on sequences *)

Range(s) == {s[i] : i \in 1..Len(s)}

Min2(a, b) == IF a < b THEN a ELSE b

\* s.slice(from, to) of a Buffer or string: 0-based, end exclusive, clamped
Slice(s, from, to) ==
    LET t == Min2(to, Len(s)) IN
    IF from >= t THEN <<>> ELSE SubSeq(s, from + 1, t)

(* Helpers on text *)

\* the least and the greatest of a set of numbers
SetMin(S) == CHOOSE x \in S : \A y \in S : x <= y
SetMax(S) == CHOOSE x \in S : \A y \in S : y <= x

DigitString == <<"0", "1", "2", "3", "4", "5", "6", "7", "8", "9">>
Digits == Range(DigitString)
DigitValue(c) == (CHOOSE k \in 1..10 : DigitString[k] = c) - 1

\* the characters String.prototype.trim and \s take for white space
WhiteSpace == {" ", "\n", "\t", "\r"}

\* str.trim()
Trim(str) ==
    LET solid == {k \in 1..Len(str) : str[k] \notin WhiteSpace} IN
    IF solid = {} THEN <<>>
    ELSE SubSeq(str, CHOOSE k \in solid : \A l \in solid : k <= l,
                     CHOOSE k \in solid : \A l \in solid : l <= k)

\* the last index of the longest run of characters of S that starts at p;
\* p - 1 when str[p] is not in S
RunEnd(str, p, S) ==
    LET stops == {k \in p..Len(str) : str[k] \notin S} IN
    IF stops = {} THEN Len(str) ELSE SetMin(stops) - 1

\* the digits of a number
RECURSIVE NatDigits(_)
NatDigits(n) ==
    IF n < 10 THEN <<DigitString[n + 1]>>
    ELSE NatDigits(n \div 10) \o <<DigitString[(n % 10) + 1]>>

\* a plain object: a function from its keys (texts) to their values
EmptyObject == [key \in {} |-> <<>>]

-----------------------------------------------------------------------------
(* The GLB container: upload/route.ts, parseGlbAnnotations *)

GLB_MAGIC == 1179937895          \* 0x46546C67, "glTF"
JSON_CHUNK_TYPE == 1313821514    \* 0x4E4F534A, "JSON"
BIN_CHUNK_TYPE == 66 + 256 * 73 + 65536 * 78    \* 0x004E4942, "BIN\0"

\* writeUInt32LE: the four bytes of n, least significant first
LE32(n) == <<n % 256, (n \div 256) % 256, (n \div 65536) % 256, (n \div 16777216) % 256>>

\* readUInt32LE(off): Node throws a RangeError when off + 4 > length
RangeError == 0 - 1
ReadUInt32LE(buf, off) ==
    IF off + 4 > Len(buf) THEN RangeError
    ELSE buf[off + 1] + 256 * buf[off + 2] + 65536 * buf[off + 3] + 16777216 * buf[off + 4]

\* the offsets a readUInt32LE(off) touches
Word(off) == off .. (off + 3)

\* The structural documents of the model, with the JSON text of each.
\* JSON.parse is library code: it is modelled as the inverse of this table,
\* a SyntaxError for every text that is not in it.
NoNodesText == <<123, 125>>                                           \* {}
OneNodeText == <<123, 34, 110, 111, 100, 101, 115, 34, 58, 91, 123, 34, 110, 97,
                 109, 101, 34, 58, 34, 65, 34, 125, 93, 125>>         \* {"nodes":[{"name":"A"}]}
TwoNodeText == <<123, 34, 110, 111, 100, 101, 115, 34, 58, 91, 123, 34, 110, 97,
                 109, 101, 34, 58, 34, 65, 34, 125, 44, 123, 125, 93, 125>>
                                                                      \* {"nodes":[{"name":"A"},{}]}
\* The values JSON.parse returns.  A number is an integer here; an object is
\* a function from its keys (texts) to their values.
JsUndefined == [kind |-> "undefined"]         \* what reading a missing property gives
JsNull == [kind |-> "null"]
JsString(text) == [kind |-> "string", text |-> text]
JsNumber(n) == [kind |-> "number", value |-> n]
JsBoolean(b) == [kind |-> "boolean", value |-> b]
JsArray(items) == [kind |-> "array", items |-> items]
JsObject(fields) == [kind |-> "object", fields |-> fields]

\* an entry of gltf.nodes that is an object, with the four properties the loop
\* reads; JsUndefined for a property the object does not have
Node(name, translation, matrix, extras) ==
    [kind |-> "node", name |-> name, translation |-> translation, matrix |-> matrix,
     extras |-> extras]
NamedNode(text) == Node(JsString(text), JsUndefined, JsUndefined, JsUndefined)
EmptyNode == Node(JsUndefined, JsUndefined, JsUndefined, JsUndefined)

\* {"nodes":[{"name":"A [5]"},{"name":"A"},{"name":"A [6] A [5]"},{"name":"A [5]","extras":{"k":"v"}}]}
BracketNodesText ==
    <<123, 34, 110, 111, 100, 101, 115, 34, 58, 91, 123, 34, 110, 97, 109, 101, 34, 58, 34, 65,
      32, 91, 53, 93, 34, 125, 44, 123, 34, 110, 97, 109, 101, 34, 58, 34, 65, 34, 125, 44,
      123, 34, 110, 97, 109, 101, 34, 58, 34, 65, 32, 91, 54, 93, 32, 65, 32, 91, 53, 93, 34,
      125, 44, 123, 34, 110, 97, 109, 101, 34, 58, 34, 65, 32, 91, 53, 93, 34, 44, 34, 101,
      120, 116, 114, 97, 115, 34, 58, 123, 34, 107, 34, 58, 34, 118, 34, 125, 125, 93, 125>>
\* {"nodes":[{"name":"A [5]"},{"name":"A"},{"name":"A [6] A [5]"},{"name":"A [5]"}]}
CleanedNodesText ==
    <<123, 34, 110, 111, 100, 101, 115, 34, 58, 91, 123, 34, 110, 97, 109, 101, 34, 58, 34, 65,
      32, 91, 53, 93, 34, 125, 44, 123, 34, 110, 97, 109, 101, 34, 58, 34, 65, 34, 125, 44,
      123, 34, 110, 97, 109, 101, 34, 58, 34, 65, 32, 91, 54, 93, 32, 65, 32, 91, 53, 93, 34,
      125, 44, 123, 34, 110, 97, 109, 101, 34, 58, 34, 65, 32, 91, 53, 93, 34, 125, 93, 125>>
NoNodesDoc == [nodes |-> <<>>]
OneNodeDoc == [nodes |-> <<NamedNode(<<"A">>)>>]
TwoNodeDoc == [nodes |-> <<NamedNode(<<"A">>), EmptyNode>>]
BracketNodesDoc ==
    [nodes |-> <<NamedNode(<<"A", " ", "[", "5", "]">>), NamedNode(<<"A">>), NamedNode(<<"A", " ", "[", "6", "]", " ", "A", " ", "[", "5", "]">>),
                 Node(JsString(<<"A", " ", "[", "5", "]">>), JsUndefined, JsUndefined,
                      JsObject([key \in {<<"k">>} |-> JsString(<<"v">>)]))>>]

\* a cleanExtras that leaves the extras
cleanExtrasKeeps(doc) == doc

\* part_007 lines 9-19 (glb-optimize.ts 9-19) on the nodes: node.setExtras({}),
\* and a node is written without its empty extras
cleanExtras(doc) ==
    [nodes |-> [k \in 1..Len(doc.nodes) |-> [doc.nodes[k] EXCEPT !.extras = JsUndefined]]]

CleanedNodesDoc ==
    [nodes |-> <<NamedNode(<<"A", " ", "[", "5", "]">>), NamedNode(<<"A">>),
                 NamedNode(<<"A", " ", "[", "6", "]", " ", "A", " ", "[", "5", "]">>),
                 NamedNode(<<"A", " ", "[", "5", "]">>)>>]

SyntaxError == [nodes |-> "SyntaxError"]

\* .replace(/\0+$/, ''): drop the trailing NUL bytes
RECURSIVE StripNul(_)
StripNul(s) ==
    IF s # <<>> /\ s[Len(s)] = 0 THEN StripNul(SubSeq(s, 1, Len(s) - 1)) ELSE s

\* JSON.parse skips trailing white space (the space padding of a chunk)
RECURSIVE StripSpace(_)
StripSpace(s) ==
    IF s # <<>> /\ s[Len(s)] = 32 THEN StripSpace(SubSeq(s, 1, Len(s) - 1)) ELSE s

JsonParse(bytes) ==
    LET t == StripSpace(bytes) IN
    CASE t = NoNodesText -> NoNodesDoc
      [] t = OneNodeText -> OneNodeDoc
      [] t = TwoNodeText -> TwoNodeDoc
      [] t = BracketNodesText -> BracketNodesDoc
      [] t = CleanedNodesText -> CleanedNodesDoc
      [] OTHER -> SyntaxError

\* String(value) and Array.prototype.join, which writes nothing for null
RECURSIVE StringOf(_)
RECURSIVE JoinFrom(_, _)
JoinFrom(items, k) ==
    IF k > Len(items) THEN <<>>
    ELSE (IF k > 1 THEN <<",">> ELSE <<>>)
         \o (IF items[k].kind \in {"null", "undefined"} THEN <<>> ELSE StringOf(items[k]))
         \o JoinFrom(items, k + 1)

StringOf(v) ==
    CASE v.kind = "string" -> v.text
      [] v.kind = "number" -> IF v.value < 0 THEN <<"-">> \o NatDigits(0 - v.value)
                                             ELSE NatDigits(v.value)
      [] v.kind = "boolean" -> IF v.value THEN <<"t", "r", "u", "e">> ELSE <<"f", "a", "l", "s", "e">>
      [] v.kind = "null" -> <<"n", "u", "l", "l">>
      [] v.kind = "undefined" -> <<"u", "n", "d", "e", "f", "i", "n", "e", "d">>
      [] v.kind = "array" -> JoinFrom(v.items, 1)
      [] OTHER -> <<"[", "o", "b", "j", "e", "c", "t", " ", "O", "b", "j", "e", "c", "t", "]">>

\* line 54 without the trim
NamedUntrimmed(name) == name.kind = "string" /\ name.text # <<>>

\* line 54: typeof name === 'string' && name.trim() !== ''
Named(name) == name.kind = "string" /\ Trim(name.text) # <<>>

\* line 60: Array.isArray(node.translation) && node.translation.length >= 3
HasTranslation(node) == node.translation.kind = "array" /\ Len(node.translation.items) >= 3

\* line 63: Array.isArray(node.matrix) && node.matrix.length === 16
HasMatrix(node) == node.matrix.kind = "array" /\ Len(node.matrix.items) = 16

Origin == [x |-> JsNumber(0), y |-> JsNumber(0), z |-> JsNumber(0)]

\* lines 59-66 with the matrix tried first
PositionMatrixFirst(node) ==
    IF HasMatrix(node)
    THEN LET m == node.matrix.items IN [x |-> m[13], y |-> m[14], z |-> m[15]]
    ELSE IF HasTranslation(node)
    THEN LET t == node.translation.items IN [x |-> t[1], y |-> t[2], z |-> t[3]]
    ELSE Origin

\* lines 59-66: the position of a node
Position(node) ==
    IF HasTranslation(node)
    THEN LET t == node.translation.items IN [x |-> t[1], y |-> t[2], z |-> t[3]]
    ELSE IF HasMatrix(node)
    THEN LET m == node.matrix.items IN [x |-> m[13], y |-> m[14], z |-> m[15]]
    ELSE Origin

\* lines 71-76 taking every node to have no custom data
hasExtrasNever(extras) == FALSE

\* lines 71-76: extras is an object, not null, not an array, with a key
hasExtras(extras) == extras.kind = "object" /\ DOMAIN extras.fields # {}

\* the places (1-based) where /\[(\d+)\]/ matches: a "[", digits, a "]"
BracketAt(name, p) ==
    /\ name[p] = "["
    /\ LET last == RunEnd(name, p + 1, Digits) IN
       last > p /\ last < Len(name) /\ name[last + 1] = "]"

NoMatch == <<"no match">>

\* line 88 with the pattern anchored: /\[(\d+)\]$/
BracketMatchAtEnd(name) ==
    LET places == {p \in 1..Len(name) : BracketAt(name, p)
                                        /\ RunEnd(name, p + 1, Digits) + 1 = Len(name)}
    IN  IF places = {} THEN NoMatch
        ELSE LET p == SetMin(places) IN SubSeq(name, p + 1, RunEnd(name, p + 1, Digits))

\* line 88: name.match(/\[(\d+)\]/), the digits of the first match
BracketMatch(name) ==
    LET places == {p \in 1..Len(name) : BracketAt(name, p)} IN
    IF places = {} THEN NoMatch
    ELSE LET p == SetMin(places) IN SubSeq(name, p + 1, RunEnd(name, p + 1, Digits))

\* name.lastIndexOf(' ['), 0-based, -1 when there is none
LastIndexOfSpaceBracket(name) ==
    LET places == {p \in 1..(Len(name) - 1) : name[p] = " " /\ name[p + 1] = "["} IN
    IF places = {} THEN 0 - 1 ELSE SetMax(places) - 1

\* str.substring(0, to): a negative end counts as 0
Substring0(str, to) == IF to <= 0 THEN <<>> ELSE SubSeq(str, 1, Min2(to, Len(str)))

revit_element_id == <<"r", "e", "v", "i", "t", "_", "e", "l", "e", "m", "e", "n", "t", "_", "i", "d">>
family_type == <<"f", "a", "m", "i", "l", "y", "_", "t", "y", "p", "e">>

\* lines 85-96: the metadata read from the name
NameMetadata(name) ==
    LET bracketMatch == BracketMatch(name) IN
    IF bracketMatch = NoMatch THEN EmptyObject
    ELSE LET familyType == Trim(Substring0(name, LastIndexOfSpaceBracket(name))) IN
         [key \in {revit_element_id} \cup (IF familyType # <<>> THEN {family_type} ELSE {})
            |-> IF key = revit_element_id THEN bracketMatch ELSE familyType]

\* lines 68-96: the metadata of a named node
Metadata(node) ==
    IF hasExtras(node.extras)
    THEN [key \in DOMAIN node.extras.fields |-> StringOf(node.extras.fields[key])]
    ELSE NameMetadata(node.name.text)

\* `ann_${index}`
AnnId(index) == <<"a", "n", "n", "_">> \o NatDigits(index)

\* lines 52-104, the callback of nodes.forEach: what one entry pushes
NodeAnnotation(node, index) ==
    IF node.kind # "node" \/ ~Named(node.name) THEN <<>>
    ELSE <<[id |-> AnnId(index), label |-> node.name.text, position |-> Position(node),
            metadata |-> Metadata(node)]>>

\* reading a property of null throws a TypeError
NodesThrow(nodes) == \E k \in 1..Len(nodes) : nodes[k].kind = "null"

\* nodes.forEach from the entry at index on
RECURSIVE NodeAnnotations(_, _)
NodeAnnotations(nodes, index) ==
    IF index >= Len(nodes) THEN <<>>
    ELSE NodeAnnotation(nodes[index + 1], index) \o NodeAnnotations(nodes, index + 1)

Threw(err, rd) == [threw |-> TRUE, error |-> err, annotations |-> <<>>, reads |-> rd]

\* the size a buffer must have before its header is read
MinGlbSize == 20

\* line 41, with the bound off by one
ChunkPastEndOffByOne(jsonEnd, buf) == jsonEnd > Len(buf) + 1

\* line 41: the declared chunk would end after the buffer
ChunkPastEnd(jsonEnd, buf) == jsonEnd > Len(buf)

parseGlbAnnotations(buf) ==
    IF Len(buf) < MinGlbSize THEN Threw("too small", {})
    ELSE
    LET magic == ReadUInt32LE(buf, 0)
        r1 == Word(0)
    IN
    IF magic = RangeError THEN Threw("RangeError", r1)
    ELSE IF magic # GLB_MAGIC THEN Threw("magic", r1)
    ELSE
    LET chunk0Length == ReadUInt32LE(buf, 12)
        chunk0Type == ReadUInt32LE(buf, 16)
        r2 == r1 \cup Word(12) \cup Word(16)
    IN
    IF chunk0Length = RangeError \/ chunk0Type = RangeError THEN Threw("RangeError", r2)
    ELSE IF chunk0Type # JSON_CHUNK_TYPE THEN Threw("chunk type", r2)
    ELSE
    LET jsonStart == 20
        jsonEnd == jsonStart + chunk0Length
    IN
    IF ChunkPastEnd(jsonEnd, buf) THEN Threw("chunk length", r2)
    ELSE
    LET jsonStr == StripNul(Slice(buf, jsonStart, jsonEnd))
        r3 == r2 \cup (jsonStart .. (jsonEnd - 1))
        gltf == JsonParse(jsonStr)
    IN
    IF gltf = SyntaxError THEN Threw("SyntaxError", r3)
    ELSE IF NodesThrow(gltf.nodes) THEN Threw("TypeError", r3)
    ELSE [threw |-> FALSE, error |-> "", annotations |-> NodeAnnotations(gltf.nodes, 0),
          reads |-> r3]

-----------------------------------------------------------------------------
(* The buffers the model feeds to the reader *)

\* how many bytes a declared chunk length may differ from the payload's
MaxSkew == 2
\* how many padding bytes follow the structural text
MaxPad == 2

Texts == {NoNodesText, OneNodeText, TwoNodeText}
Pad(n, b) == [i \in 1..n |-> b]

\* a container: 12-byte header, chunk 0 header, payload
Container(magic, type, declared, payload) ==
    LE32(magic) \o LE32(2) \o LE32(20 + Len(payload)) \o LE32(declared) \o LE32(type) \o payload

Payloads == {t \o Pad(n, b) : t \in Texts, n \in 0..MaxPad, b \in {0, 32}}

FullBuffers ==
    {Container(m, ty, d, p) :
        m \in {GLB_MAGIC, GLB_MAGIC - 1, 0},
        ty \in {JSON_CHUNK_TYPE, BIN_CHUNK_TYPE},
        d \in {0, 2, 24, 26, 27, 28, 29, 30, 31},
        p \in Payloads}

\* every container, whole or cut short at one of these lengths
CutLengths == {0, 4, 11, 12, 16, 19, 20, 22}
GlbBuffers ==
    {b \in FullBuffers : Len(b) - 20 - ReadUInt32LE(b, 12) \in (0 - MaxSkew)..MaxSkew}
    \cup {Slice(Container(m, JSON_CHUNK_TYPE, 2, NoNodesText), 0, n) :
            m \in {GLB_MAGIC, 0}, n \in CutLengths}

InitGlb ==
    /\ buffer \in GlbBuffers
    /\ glbPc = "input"
    /\ glbOut = Threw("", {})

IdleGlb ==
    /\ buffer = <<>>
    /\ glbPc = "idle"
    /\ glbOut = Threw("", {})

ParseGlb ==
    /\ glbPc = "input"
    /\ glbOut' = parseGlbAnnotations(buffer)
    /\ glbPc' = "done"
    /\ UNCHANGED <<buffer, exceptGlb>>

-----------------------------------------------------------------------------
(* The parsed documents the model feeds to the node loop *)

\* how many entries a node list has
MaxNodes == 2
\* how long an enumerated name is
MaxNameLen == 4

NameAlphabet == {"A", " ", "[", "]", "1", "2"}
\* every text over the alphabet, and some longer names
NameTexts ==
    UNION {[1..n -> NameAlphabet] : n \in 0..MaxNameLen}
    \cup {<<"S", "t", "e", "e", "l", " ", "B", "e", "a", "m", " ", "[", "4", "2", "4", "4", "6", "1", "]">>, <<"A", " ", "[", "1", "]", " ", "A">>, <<"A", " ", "[", "1", "]", " ", "A", " ", "[", "2", "]">>, <<"A", " ", "[", "1", "]", " ", "[", "A", "]">>, <<"A", "[", "1", "2", "]">>,
          <<" ", "[", "1", "2", "]", " ">>, <<"A", " ", "[", "1", "2", "]", " ", " ">>, <<"A", " ", " ", "[", "1", "2", "]">>}

\* one-entry documents: every name
NameDocs == {[nodes |-> <<NamedNode(n)>>] : n \in NameTexts}

\* entries of all kinds, for the lists
NodePalette ==
    {NamedNode(<<"A">>), NamedNode(<<"A", " ", "[", "1", "]">>), NamedNode(<<" ", " ">>), NamedNode(<<>>),
     EmptyNode, Node(JsNumber(7), JsUndefined, JsUndefined, JsUndefined),
     Node(JsNull, JsUndefined, JsUndefined, JsUndefined), JsNull, JsNumber(3)}
ListDocs == {[nodes |-> l] : l \in UNION {[1..n -> NodePalette] : n \in 0..MaxNodes}}

\* translation and matrix of every shape
Vector(n) == JsArray([k \in 1..n |-> JsNumber(k - 3)])
Matrix(n) == JsArray([k \in 1..n |-> JsNumber(100 + k - 1)])
Translations == {JsUndefined, JsNull, JsString(<<"1">>), Vector(0), Vector(2), Vector(3),
                 Vector(4), JsArray(<<JsNumber(1), JsNull, JsString(<<"A">>)>>)}
Matrices == {JsUndefined, JsNull, Matrix(0), Matrix(15), Matrix(16), Matrix(17)}
PositionDocs ==
    {[nodes |-> <<Node(JsString(<<"A">>), t, m, JsUndefined)>>] :
        t \in Translations, m \in Matrices}

\* custom data of every shape
ExtrasKeys == {<<"k">>, <<"I", "d">>, revit_element_id}
ExtrasValues == {JsString(<<>>), JsString(<<"A", " ", "1">>), JsNumber(42), JsNumber(0 - 5),
                 JsBoolean(TRUE), JsBoolean(FALSE), JsNull,
                 JsArray(<<JsNumber(1), JsNull, JsString(<<"A">>)>>),
                 JsObject([key \in {<<"k">>} |-> JsNumber(1)])}
ExtrasObjects ==
    {JsObject([key \in keys |-> IF key = <<"k">> THEN v ELSE w]) :
        keys \in SUBSET ExtrasKeys, v \in ExtrasValues, w \in {JsString(<<"B">>), JsNumber(7)}}
Extras ==
    ExtrasObjects \cup {JsUndefined, JsNull, JsString(<<"A">>), JsNumber(1),
                        JsArray(<<>>), JsArray(<<JsNumber(1)>>)}
ExtrasDocs ==
    {[nodes |-> <<Node(JsString(n), JsUndefined, JsUndefined, e)>>] :
        n \in {<<"A">>, <<"A", " ", "[", "1", "]">>, <<"S", "t", "e", "e", "l", " ", "B", "e", "a", "m", " ", "[", "4", "2", "4", "4", "6", "1", "]">>}, e \in Extras}

NodeDocs == NameDocs \cup ListDocs \cup PositionDocs \cup ExtrasDocs

InitNodes ==
    /\ nodeDoc \in NodeDocs
    /\ nodePc = "input"
    /\ nodeOut = <<>>

\* lines 49-106: const nodes = gltf.nodes || [], the loop, return annotations
ExtractNodes ==
    /\ nodePc = "input"
    /\ nodeOut' = IF NodesThrow(nodeDoc.nodes)
                  THEN [threw |-> TRUE, annotations |-> <<>>]
                  ELSE [threw |-> FALSE, annotations |-> NodeAnnotations(nodeDoc.nodes, 0)]
    /\ nodePc' = "done"
    /\ UNCHANGED <<nodeDoc, exceptNodes>>

-----------------------------------------------------------------------------
(* patchAccessorBounds: glb-optimize.ts lines 131-217.  A structural text is *)
(* a sequence of code points.                                                *)

\* String.length counts UTF-16 code units
Utf16Len(c) == IF c > 65535 THEN 2 ELSE 1

RECURSIVE StringLength(_)
StringLength(str) ==
    IF Len(str) = 0 THEN 0
    ELSE IF Len(str) = 1 THEN Utf16Len(str[1])
    ELSE LET half == Len(str) \div 2 IN
         StringLength(SubSeq(str, 1, half)) + StringLength(SubSeq(str, half + 1, Len(str)))

\* the UTF-8 bytes of one code point
Utf8(c) ==
    IF c < 128 THEN <<c>>
    ELSE IF c < 2048 THEN <<192 + (c \div 64), 128 + (c % 64)>>
    ELSE IF c < 65536 THEN <<224 + (c \div 4096), 128 + ((c \div 64) % 64), 128 + (c % 64)>>
    ELSE <<240 + (c \div 262144), 128 + ((c \div 4096) % 64), 128 + ((c \div 64) % 64),
           128 + (c % 64)>>

\* Buffer.from(str, 'utf8')
RECURSIVE BufferFromUtf8(_)
BufferFromUtf8(str) ==
    IF Len(str) = 0 THEN <<>>
    ELSE IF Len(str) = 1 THEN Utf8(str[1])
    ELSE LET half == Len(str) \div 2 IN
         BufferFromUtf8(SubSeq(str, 1, half)) \o BufferFromUtf8(SubSeq(str, half + 1, Len(str)))

\* ' '.repeat(n)
Spaces(n) == [i \in 1..n |-> 32]

COMPONENT_SIZES(compType) ==
    CASE compType = 5120 -> 1
      [] compType = 5121 -> 1
      [] compType = 5122 -> 2
      [] compType = 5123 -> 2
      [] compType = 5125 -> 4
      [] compType = 5126 -> 4
      [] OTHER -> 0

ELEMENT_COUNTS(type) ==
    CASE type = "SCALAR" -> 1
      [] type = "VEC2" -> 2
      [] type = "VEC3" -> 3
      [] type = "VEC4" -> 4
      [] type = "MAT2" -> 4
      [] type = "MAT3" -> 9
      [] type = "MAT4" -> 16
      [] OTHER -> 0

\* Numbers.  An integer is itself.  A float is its sign and the 31 bits of
\* its magnitude, an order-preserving code of the float32 values (-0 = 0);
\* the infinities and NaN are the three codes below.
PosInfinity == 2147483646
NegInfinity == 0 - 2147483646
NaN == 2147483647
\* the null of a JSON text
JsonNull == 0 - 2147483647

\* JSON.stringify writes a number that is not finite as null
WrittenNumber(v) == IF v \in {PosInfinity, NegInfinity, NaN} THEN JsonNull ELSE v

\* an accessor as the text JSON.stringify writes for it denotes it
WrittenAccessor(a) ==
    [a EXCEPT !.min = [j \in DOMAIN a.min |-> WrittenNumber(a.min[j])],
              !.max = [j \in DOMAIN a.max |-> WrittenNumber(a.max[j])]]

\* val < min, val > max: every comparison with NaN is false
Less(a, b) == a # NaN /\ b # NaN /\ a < b

ReadUInt8(bin, off) == bin[off + 1]
ReadInt8(bin, off) == IF bin[off + 1] >= 128 THEN bin[off + 1] - 256 ELSE bin[off + 1]
ReadUInt16LE(bin, off) == bin[off + 1] + 256 * bin[off + 2]
ReadInt16LE(bin, off) ==
    IF ReadUInt16LE(bin, off) >= 32768 THEN ReadUInt16LE(bin, off) - 65536
    ELSE ReadUInt16LE(bin, off)
ReadFloatLE(bin, off) ==
    LET mag == bin[off + 1] + 256 * bin[off + 2] + 65536 * bin[off + 3]
               + 16777216 * (bin[off + 4] % 128)
        neg == bin[off + 4] >= 128
    IN  IF mag > 2139095040 THEN NaN
        ELSE IF mag = 2139095040 THEN (IF neg THEN NegInfinity ELSE PosInfinity)
        ELSE IF neg THEN 0 - mag ELSE mag

\* lines 175-181: the read chosen by the component type
ReadComponent(compType, bin, off) ==
    CASE compType = 5126 -> ReadFloatLE(bin, off)
      [] compType = 5125 -> ReadUInt32LE(bin, off)
      [] compType = 5123 -> ReadUInt16LE(bin, off)
      [] compType = 5121 -> ReadUInt8(bin, off)
      [] compType = 5122 -> ReadInt16LE(bin, off)
      [] compType = 5120 -> ReadInt8(bin, off)

\* line 165 without the view's byteStride
StridePacked(bv, compSize, elemCount) == compSize * elemCount

\* line 165
Stride(bv, compSize, elemCount) ==
    IF bv.byteStride # 0 THEN bv.byteStride ELSE compSize * elemCount

\* lines 170-186: the elements from the k-th component on; a read past the
\* payload throws
RECURSIVE Scan(_, _, _, _, _, _)
Scan(k, acc, accessor, byteOffset, stride, binData) ==
    LET elemCount == ELEMENT_COUNTS(accessor.type)
        compType == accessor.componentType
        compSize == COMPONENT_SIZES(compType)
        i == k \div elemCount
        j == k % elemCount
        offset == byteOffset + i * stride + j * compSize
    IN  IF k >= accessor.count * elemCount THEN acc
        ELSE IF offset + compSize > Len(binData) THEN [acc EXCEPT !.threw = TRUE]
        ELSE LET val == ReadComponent(compType, binData, offset) IN
             Scan(k + 1,
                  [threw |-> FALSE,
                   min |-> IF Less(val, acc.min[j + 1])
                           THEN [acc.min EXCEPT ![j + 1] = val] ELSE acc.min,
                   max |-> IF Less(acc.max[j + 1], val)
                           THEN [acc.max EXCEPT ![j + 1] = val] ELSE acc.max],
                  accessor, byteOffset, stride, binData)

\* lines 163-186: the bounds of one accessor
ScanBounds(accessor, bv, binData) ==
    LET elemCount == ELEMENT_COUNTS(accessor.type)
        compSize == COMPONENT_SIZES(accessor.componentType)
    IN  Scan(0, [threw |-> FALSE,
                 min |-> [j \in 1..elemCount |-> PosInfinity],
                 max |-> [j \in 1..elemCount |-> NegInfinity]],
             accessor, bv.byteOffset + accessor.byteOffset,
             Stride(bv, compSize, elemCount), binData)

\* lines 151-162: the accessors the loop passes over
Skipped(accessor, bufferViews) ==
    \/ accessor.hasMin /\ accessor.hasMax
    \/ accessor.count = 0
    \/ ELEMENT_COUNTS(accessor.type) = 0
    \/ COMPONENT_SIZES(accessor.componentType) = 0
    \/ accessor.bufferView \notin 0 .. (Len(bufferViews) - 1)

\* lines 150-190: one turn of the loop
PatchAccessor(accessor, bufferViews, binData) ==
    IF Skipped(accessor, bufferViews) THEN [threw |-> FALSE, accessor |-> accessor]
    ELSE LET b == ScanBounds(accessor, bufferViews[accessor.bufferView + 1], binData) IN
         IF b.threw THEN [threw |-> TRUE, accessor |-> accessor]
         ELSE [threw |-> FALSE,
               accessor |-> [accessor EXCEPT !.hasMin = TRUE, !.min = b.min,
                                             !.hasMax = TRUE, !.max = b.max]]

\* JSON.stringify on the documents of the model
RECURSIVE NatText(_)
NatText(n) == IF n < 10 THEN <<48 + n>> ELSE NatText(n \div 10) \o <<48 + (n % 10)>>
IntText(n) == IF n < 0 THEN <<45>> \o NatText(0 - n) ELSE NatText(n)

TextNull == <<110, 117, 108, 108>>        \* null
TextHalf == <<48, 46, 53>>                \* 0.5

\* the float32 values of the model's payloads, by their codes
FloatText(v) ==
    CASE v = 0 -> <<48>>
      [] v = 1065353216 -> <<49>>                 \* 1
      [] v = 0 - 1065353216 -> <<45, 49>>         \* -1
      [] v = 1056964608 -> TextHalf
      [] v = 1073741824 -> <<50>>                 \* 2

\* a number; Infinity, -Infinity and NaN are written null
NumberText(v, compType) ==
    IF WrittenNumber(v) = JsonNull THEN TextNull
    ELSE IF compType = 5126 THEN FloatText(v)
    ELSE IntText(v)

\* the numbers of an array from the k-th on, separated by commas
RECURSIVE NumbersFrom(_, _, _)
NumbersFrom(vs, k, compType) ==
    IF k > Len(vs) THEN <<>>
    ELSE NumberText(vs[k], compType)
         \o (IF k < Len(vs) THEN <<44>> ELSE <<>>)
         \o NumbersFrom(vs, k + 1, compType)

NumbersText(vs, compType) == NumbersFrom(vs, 1, compType)

TypeText(type) ==
    CASE type = "SCALAR" -> <<83, 67, 65, 76, 65, 82>>
      [] type = "VEC2" -> <<86, 69, 67, 50>>
      [] type = "BOGUS" -> <<66, 79, 71, 85, 83>>

KeyBufferView == <<34, 98, 117, 102, 102, 101, 114, 86, 105, 101, 119, 34, 58>>   \* "bufferView":
KeyByteOffset == <<34, 98, 121, 116, 101, 79, 102, 102, 115, 101, 116, 34, 58>>   \* "byteOffset":
KeyComponentType == <<34, 99, 111, 109, 112, 111, 110, 101, 110, 116, 84, 121, 112, 101, 34, 58>>
                                                                                   \* "componentType":
KeyCount == <<34, 99, 111, 117, 110, 116, 34, 58>>                                 \* "count":
KeyType == <<34, 116, 121, 112, 101, 34, 58, 34>>                                  \* "type":"
KeyMin == <<34, 109, 105, 110, 34, 58, 91>>                                        \* "min":[
KeyMax == <<34, 109, 97, 120, 34, 58, 91>>                                         \* "max":[
KeyBuffer == <<123, 34, 98, 117, 102, 102, 101, 114, 34, 58, 48, 44, 34, 98, 121, 116, 101,
               76, 101, 110, 103, 116, 104, 34, 58>>                   \* {"buffer":0,"byteLength":
KeyByteStride == <<34, 98, 121, 116, 101, 83, 116, 114, 105, 100, 101, 34, 58>>   \* "byteStride":
OpenAccessors == <<123, 34, 97, 99, 99, 101, 115, 115, 111, 114, 115, 34, 58, 91>> \* {"accessors":[
OpenBufferViews == <<93, 44, 34, 98, 117, 102, 102, 101, 114, 86, 105, 101, 119, 115, 34, 58,
                     91>>                                              \* ],"bufferViews":[
OpenBuffers == <<93, 44, 34, 98, 117, 102, 102, 101, 114, 115, 34, 58, 91, 123, 34, 98, 121,
                 116, 101, 76, 101, 110, 103, 116, 104, 34, 58>>       \* ],"buffers":[{"byteLength":
OpenNodes == <<125, 93, 44, 34, 110, 111, 100, 101, 115, 34, 58, 91, 123, 34, 110, 97, 109,
               101, 34, 58, 34>>                                       \* }],"nodes":[{"name":"
NodesOnly == <<123, 34, 110, 111, 100, 101, 115, 34, 58, 91, 123, 34, 110, 97, 109, 101, 34,
               58, 34>>                                                \* {"nodes":[{"name":"
CloseDoc == <<34, 125, 93, 125>>                                       \* "}]}

MinText(a) ==
    IF a.hasMin THEN <<44>> \o KeyMin \o NumbersText(a.min, a.componentType) \o <<93>>
    ELSE <<>>
MaxText(a) ==
    IF a.hasMax THEN <<44>> \o KeyMax \o NumbersText(a.max, a.componentType) \o <<93>>
    ELSE <<>>

\* the keys of an object are written in the order they were set: a min set
\* by the pass on an accessor that declared only max comes after max
AccessorText(a) ==
    <<123>>
    \o (IF a.bufferView >= 0 THEN KeyBufferView \o NatText(a.bufferView) \o <<44>> ELSE <<>>)
    \o (IF a.byteOffset # 0 THEN KeyByteOffset \o NatText(a.byteOffset) \o <<44>> ELSE <<>>)
    \o KeyComponentType \o NatText(a.componentType) \o <<44>>
    \o KeyCount \o NatText(a.count) \o <<44>>
    \o KeyType \o TypeText(a.type) \o <<34>>
    \o (IF a.maxFirst THEN MaxText(a) \o MinText(a) ELSE MinText(a) \o MaxText(a))
    \o <<125>>

BufferViewText(bv) ==
    KeyBuffer \o NatText(bv.byteLength)
    \o (IF bv.byteOffset # 0 THEN <<44>> \o KeyByteOffset \o NatText(bv.byteOffset) ELSE <<>>)
    \o (IF bv.byteStride # 0 THEN <<44>> \o KeyByteStride \o NatText(bv.byteStride) ELSE <<>>)
    \o <<125>>

RECURSIVE AccessorsText(_)
AccessorsText(items) ==
    IF items = <<>> THEN <<>>
    ELSE AccessorText(Head(items)) \o (IF Len(items) > 1 THEN <<44>> ELSE <<>>)
         \o AccessorsText(Tail(items))

RECURSIVE BufferViewsText(_)
BufferViewsText(items) ==
    IF items = <<>> THEN <<>>
    ELSE BufferViewText(Head(items)) \o (IF Len(items) > 1 THEN <<44>> ELSE <<>>)
         \o BufferViewsText(Tail(items))

JsonStringify(gltf) ==
    IF ~gltf.hasAccessors THEN NodesOnly \o gltf.name \o CloseDoc
    ELSE OpenAccessors \o AccessorsText(gltf.accessors)
         \o OpenBufferViews \o BufferViewsText(gltf.bufferViews)
         \o OpenBuffers \o NatText(gltf.byteLength)
         \o OpenNodes \o gltf.name \o CloseDoc

\* io.writeBinary (line 121): the container handed to the pass.  The writer
\* pads the structural chunk to four bytes and adds the binary chunk.
WriteBinary(gltf, binData) ==
    LET text == BufferFromUtf8(JsonStringify(gltf))
        json == text \o Spaces((4 - (Len(text) % 4)) % 4)
    IN  LE32(GLB_MAGIC) \o LE32(2) \o LE32(12 + 8 + Len(json) + 8 + Len(binData))
        \o LE32(Len(json)) \o LE32(JSON_CHUNK_TYPE) \o json
        \o LE32(Len(binData)) \o LE32(BIN_CHUNK_TYPE) \o binData

\* lines 150-190: the loop, one accessor after the other
RECURSIVE PatchAccessors(_, _, _)
PatchAccessors(accessors, bufferViews, binData) ==
    IF accessors = <<>> THEN [threw |-> FALSE, accessors |-> <<>>]
    ELSE LET first == PatchAccessor(Head(accessors), bufferViews, binData) IN
         IF first.threw THEN [threw |-> TRUE, accessors |-> <<>>]
         ELSE LET rest == PatchAccessors(Tail(accessors), bufferViews, binData) IN
              [threw |-> rest.threw,
               accessors |-> IF rest.threw THEN <<>> ELSE <<first.accessor>> \o rest.accessors]

\* patchAccessorBounds(buf); gltf is JSON.parse of the structural chunk of
\* buf, the document the writer serialised.  The result carries the bytes
\* returned and the document their structural chunk denotes.
patchAccessorBounds(buf, gltf) ==
    LET jsonChunkLen == ReadUInt32LE(buf, 12) IN
    IF ~gltf.hasAccessors THEN [threw |-> FALSE, bytes |-> buf, gltf |-> gltf]
    ELSE
    LET binChunkOffset == 12 + 8 + jsonChunkLen
        binChunkDataOffset == binChunkOffset + 8
        binData == Slice(buf, binChunkDataOffset, Len(buf))
        patched == PatchAccessors(gltf.accessors, gltf.bufferViews, binData)
    IN
    IF patched.threw THEN [threw |-> TRUE, bytes |-> <<>>, gltf |-> gltf]
    ELSE
    LET newGltf == [gltf EXCEPT !.accessors = patched.accessors]
        newJsonStr == JsonStringify(newGltf)
        jsonPadded == newJsonStr \o Spaces((4 - (StringLength(newJsonStr) % 4)) % 4)
        jsonBuf == BufferFromUtf8(jsonPadded)
        binChunkHeader == Slice(buf, binChunkOffset, binChunkOffset + 8)
        totalLen == 12 + 8 + Len(jsonBuf) + 8 + Len(binData)
        out == LE32(GLB_MAGIC) \o LE32(2) \o LE32(totalLen)
               \o LE32(Len(jsonBuf)) \o LE32(JSON_CHUNK_TYPE) \o jsonBuf
               \o binChunkHeader \o Pad(8 - Len(binChunkHeader), 0) \o binData
    IN  [threw |-> FALSE, bytes |-> out,
         gltf |-> [newGltf EXCEPT !.accessors =
                      [k \in DOMAIN newGltf.accessors |-> WrittenAccessor(newGltf.accessors[k])]]]

\* The containers the model hands to the pass
MaxCount == 2        \* elements of an accessor
MaxName == 2         \* characters of the node name

\* bytes with both signs of the 8- and 16-bit readings; every 32-bit word is
\* below 2^31
IntPayload == <<255, 128, 1, 0,   0, 0, 0, 0,   1, 0, 255, 127,   128, 255, 2, 0>>
\* the float32 values 1, -1, 0.5, 2; -0, Infinity, -Infinity, 0; NaN, 1, NaN, NaN
FloatPayloads == {<<0, 0, 128, 63,   0, 0, 128, 191,   0, 0, 0, 63,   0, 0, 0, 64>>,
                  <<0, 0, 0, 128,   0, 0, 128, 127,   0, 0, 128, 255,   0, 0, 0, 0>>,
                  <<0, 0, 192, 127,   0, 0, 128, 63,   0, 0, 192, 127,   0, 0, 192, 255>>}
PayloadsFor(compType) == IF compType = 5126 THEN FloatPayloads ELSE {IntPayload}

ComponentTypes == {5120, 5121, 5122, 5123, 5124, 5125, 5126}
Shapes == {"SCALAR", "VEC2", "BOGUS"}
NameChars == {97, 233, 8364, 128512}        \* a, e-acute, euro sign, an emoji

Names(n) == UNION {[1..k -> NameChars] : k \in 0..n}

Accessor(view, offset, compType, count, type, declMin, declMax) ==
    [bufferView |-> view, byteOffset |-> offset, componentType |-> compType,
     count |-> count, type |-> type,
     hasMin |-> declMin, min |-> IF declMin THEN [j \in 1..ELEMENT_COUNTS(type) |-> 0] ELSE <<>>,
     hasMax |-> declMax, max |-> IF declMax THEN [j \in 1..ELEMENT_COUNTS(type) |-> 0] ELSE <<>>,
     maxFirst |-> declMax /\ ~declMin]

\* an accessor without bounds over the first bytes of the payload
PlainAccessor == Accessor(0, 0, 5121, 2, "SCALAR", FALSE, FALSE)

Document(accessors, viewOffset, viewStride, name) ==
    [hasAccessors |-> TRUE, accessors |-> accessors,
     bufferViews |-> <<[byteLength |-> 16 - viewOffset, byteOffset |-> viewOffset,
                        byteStride |-> viewStride]>>,
     byteLength |-> 16, name |-> name]

\* every accessor over its payload, alone or followed by a second one
AccessorInputs ==
    {[gltf |-> Document(<<Accessor(view, offset, compType, count, type, declMin, declMax)>>
                        \o extra, viewOffset, viewStride, <<97>>),
      binData |-> payload] :
        view \in {0 - 1, 0}, offset \in {0, 4}, compType \in ComponentTypes,
        count \in 0..MaxCount, type \in Shapes, declMin \in BOOLEAN, declMax \in BOOLEAN,
        viewOffset \in {0, 4}, viewStride \in {0, 8},
        extra \in {<<>>, <<PlainAccessor>>},
        payload \in FloatPayloads \cup {IntPayload}}

\* every node name, with and without accessors
NameInputs ==
    {[gltf |-> [Document(<<PlainAccessor>>, 0, 0, name) EXCEPT !.hasAccessors = with],
      binData |-> IntPayload] :
        name \in Names(MaxName), with \in BOOLEAN}

PatchInputs ==
    {in \in AccessorInputs :
        in.binData \in PayloadsFor(in.gltf.accessors[1].componentType)}
    \cup NameInputs

\* the container of an input
InputBuffer(in) == WriteBinary(in.gltf, in.binData)

InitPatch ==
    /\ patchIn \in PatchInputs
    /\ patchPc = "input"
    /\ patchOut = <<>>

PatchBounds ==
    /\ patchPc = "input"
    /\ patchOut' = patchAccessorBounds(InputBuffer(patchIn), patchIn.gltf)
    /\ patchPc' = "done"
    /\ UNCHANGED <<patchIn, exceptPatch>>

-----------------------------------------------------------------------------
(* The exchange-format parser: lib/ifc-parser.ts.  A text is a sequence of   *)
(* one-character strings.                                                    *)

Quote == "'"

\* line 38 ignoring the string state
InsideStringNever(inStr) == FALSE

\* line 38: inside a quoted string every character is taken as it is
InsideString(inStr) == inStr

\* line 41 ignoring the depth
SplitsAtAnyDepth(c, depth) == c = ","

\* line 41: the commas that end an argument
SplitsAt(c, depth) == c = "," /\ depth = 0

\* lines 31-43: the loop from index st.i (1-based) on
RECURSIVE Tokenise(_, _)
Tokenise(str, st) ==
    IF st.i > Len(str) THEN st
    ELSE LET c == str[st.i]
             take == [st EXCEPT !.i = st.i + 1, !.cur = st.cur \o <<c>>]
         IN
         IF c = Quote /\ ~st.inStr THEN Tokenise(str, [take EXCEPT !.inStr = TRUE])
         ELSE IF c = Quote /\ st.inStr
              THEN IF st.i + 1 <= Len(str) /\ str[st.i + 1] = Quote
                   THEN Tokenise(str, [st EXCEPT !.i = st.i + 2,
                                                 !.cur = st.cur \o <<Quote, Quote>>])
                   ELSE Tokenise(str, [take EXCEPT !.inStr = FALSE])
         ELSE IF InsideString(st.inStr) THEN Tokenise(str, take)
         ELSE IF c = "(" THEN Tokenise(str, [take EXCEPT !.depth = st.depth + 1])
         ELSE IF c = ")" THEN Tokenise(str, [take EXCEPT !.depth = st.depth - 1])
         ELSE IF SplitsAt(c, st.depth)
              THEN Tokenise(str, [st EXCEPT !.i = st.i + 1, !.cur = <<>>,
                                            !.args = Append(st.args, Trim(st.cur))])
         ELSE Tokenise(str, take)

\* parseArgs(raw)
parseArgs(str) ==
    LET st == Tokenise(str, [i |-> 1, depth |-> 0, inStr |-> FALSE, cur |-> <<>>,
                             args |-> <<>>])
    IN  IF Trim(st.cur) # <<>> THEN Append(st.args, Trim(st.cur)) ELSE st.args

\* null and undefined, told from every text
Null == <<"null">>
Undefined == <<"undefined">>

\* args[k] of a JavaScript array, k counted from 0
ArgAt(list, k) == IF k + 1 <= Len(list) THEN list[k + 1] ELSE Undefined

\* .replace(/''/g, "'"): the pairs of quotes from the left, each made one
RECURSIVE Undouble(_)
Undouble(str) ==
    IF Len(str) = 0 THEN <<>>
    ELSE IF Len(str) >= 2 /\ str[1] = Quote /\ str[2] = Quote
         THEN <<Quote>> \o Undouble(SubSeq(str, 3, Len(str)))
    ELSE <<str[1]>> \o Undouble(SubSeq(str, 2, Len(str)))

\* strArg(arg)
strArg(arg) ==
    IF arg = Undefined \/ arg = <<>> \/ arg = <<"$">> THEN Null
    ELSE IF arg[1] = Quote /\ arg[Len(arg)] = Quote
         THEN Undouble(SubSeq(arg, 2, Len(arg) - 1))
    ELSE arg

Upper == {"A", "B", "C", "D", "E", "F", "G", "H", "I", "J", "K", "L", "M",
          "N", "O", "P", "Q", "R", "S", "T", "U", "V", "W", "X", "Y", "Z"}
\* [A-Z0-9]
TypeChars == Upper \cup Digits

\* the number a run of digits writes
RECURSIVE DigitsValue(_)
DigitsValue(str) ==
    IF Len(str) = 0 THEN 0
    ELSE 10 * DigitsValue(SubSeq(str, 1, Len(str) - 1)) + DigitValue(str[Len(str)])

\* parseInt(str, 10) as a set: white space, a sign and digits are read, what
\* follows is ignored; no number (NaN) is the empty set
ParseInt(str) ==
    LET start == RunEnd(str, 1, WhiteSpace) + 1
        signed == start <= Len(str) /\ str[start] \in {"-", "+"}
        first == IF signed THEN start + 1 ELSE start
        last == RunEnd(str, first, Digits)
        value == DigitsValue(SubSeq(str, first, last))
    IN  IF last < first THEN {}
        ELSE IF signed /\ str[start] = "-" THEN {0 - value} ELSE {value}

\* refId(arg) as a set: null is the empty set
refId(arg) ==
    IF arg = Undefined \/ arg = <<>> \/ arg[1] # "#" THEN {}
    ELSE ParseInt(SubSeq(arg, 2, Len(arg)))

\* cleanValue that returns v as it is
cleanValueAsIs(v) == v

\* cleanValue(v)
cleanValue(v) ==
    IF v = <<".", "T", ".">> THEN <<"t", "r", "u", "e">>
    ELSE IF v = <<".", "F", ".">> THEN <<"f", "a", "l", "s", "e">>
    ELSE IF Len(v) >= 2 /\ v[Len(v)] = "." /\ v[Len(v) - 1] \in Digits
         THEN SubSeq(v, 1, Len(v) - 1)
    ELSE v

\* lineRe at start position p: #(\d+)\s*=\s*([A-Z0-9]+)\s*\(([^;]*)\)\s*;
\* [^;]* stops before the first ";" after the "(", and the ")" has to be the
\* last character before it that is not white space
LineMatch(text, p) ==
    LET idEnd == RunEnd(text, p + 1, Digits)
        eq == RunEnd(text, idEnd + 1, WhiteSpace) + 1
        typeStart == RunEnd(text, eq + 1, WhiteSpace) + 1
        typeEnd == RunEnd(text, typeStart, TypeChars)
        open == RunEnd(text, typeEnd + 1, WhiteSpace) + 1
        semis == {k \in (open + 1)..Len(text) : text[k] = ";"}
        semi == SetMin(semis)
        solid == {k \in (open + 1)..(semi - 1) : text[k] \notin WhiteSpace}
        close == SetMax(solid)
        ok == /\ text[p] = "#"
              /\ idEnd >= p + 1
              /\ eq <= Len(text) /\ text[eq] = "="
              /\ typeEnd >= typeStart
              /\ open <= Len(text) /\ text[open] = "("
              /\ semis # {}
              /\ solid # {} /\ text[close] = ")"
    IN  IF ok THEN [ok |-> TRUE, last |-> semi,
                    id |-> DigitsValue(SubSeq(text, p + 1, idEnd)),
                    type |-> SubSeq(text, typeStart, typeEnd),
                    argsRaw |-> SubSeq(text, open + 1, close - 1)]
        ELSE [ok |-> FALSE]

\* a Map that moves a key set again to the end
MapSetAtEnd(entities, id, ent) ==
    Append(SelectSeq(entities, LAMBDA e : e.id # id), ent)

\* entities.set(id, ent): a Map keeps a key at the place of its first set
MapSet(entities, id, ent) ==
    IF \E k \in 1..Len(entities) : entities[k].id = id
    THEN [k \in 1..Len(entities) |-> IF entities[k].id = id THEN ent ELSE entities[k]]
    ELSE Append(entities, ent)

MapHas(entities, id) == \E k \in 1..Len(entities) : entities[k].id = id
MapGet(entities, id) == entities[CHOOSE k \in 1..Len(entities) : entities[k].id = id]

\* lines 82-87: lineRe.exec from index from on, each match set in the Map
RECURSIVE ScanEntities(_, _, _)
ScanEntities(text, from, entities) ==
    LET starts == {p \in from..Len(text) : text[p] = "#" /\ LineMatch(text, p).ok} IN
    IF starts = {} THEN entities
    ELSE LET m == LineMatch(text, SetMin(starts)) IN
         ScanEntities(text, m.last + 1,
                      MapSet(entities, m.id,
                             [id |-> m.id, type |-> m.type, args |-> parseArgs(m.argsRaw)]))

\* /#(\d+)/g over str: the ids referred to, in order
RECURSIVE RefsFrom(_, _)
RefsFrom(str, from) ==
    LET starts == {p \in from..(Len(str) - 1) : str[p] = "#" /\ str[p + 1] \in Digits} IN
    IF starts = {} THEN <<>>
    ELSE LET p == SetMin(starts)
             last == RunEnd(str, p + 1, Digits)
         IN  <<DigitsValue(SubSeq(str, p + 1, last))>> \o RefsFrom(str, last + 1)

Refs(str) == RefsFrom(str, 1)

\* lines 8-23
ELEMENT_TYPES ==
    {<<"I", "F", "C", "B", "E", "A", "M">>,
     <<"I", "F", "C", "W", "A", "L", "L">>,
     <<"I", "F", "C", "W", "A", "L", "L", "S", "T", "A", "N", "D", "A", "R", "D", "C", "A", "S",
      "E">>,
     <<"I", "F", "C", "M", "E", "M", "B", "E", "R">>,
     <<"I", "F", "C", "P", "L", "A", "T", "E">>,
     <<"I", "F", "C", "C", "O", "L", "U", "M", "N">>,
     <<"I", "F", "C", "S", "L", "A", "B">>,
     <<"I", "F", "C", "B", "U", "I", "L", "D", "I", "N", "G", "E", "L", "E", "M", "E", "N", "T",
      "P", "R", "O", "X", "Y">>,
     <<"I", "F", "C", "D", "O", "O", "R">>,
     <<"I", "F", "C", "W", "I", "N", "D", "O", "W">>,
     <<"I", "F", "C", "R", "O", "O", "F">>,
     <<"I", "F", "C", "F", "O", "O", "T", "I", "N", "G">>,
     <<"I", "F", "C", "C", "O", "V", "E", "R", "I", "N", "G">>,
     <<"I", "F", "C", "R", "A", "I", "L", "I", "N", "G">>}

IFCRELDEFINESBYPROPERTIES == <<"I", "F", "C", "R", "E", "L", "D", "E", "F", "I", "N", "E", "S",
    "B", "Y", "P", "R", "O", "P", "E", "R", "T", "I", "E", "S">>
IFCPROPERTYSET == <<"I", "F", "C", "P", "R", "O", "P", "E", "R", "T", "Y", "S", "E", "T">>
IFCPROPERTYSINGLEVALUE == <<"I", "F", "C", "P", "R", "O", "P", "E", "R", "T", "Y", "S", "I",
    "N", "G", "L", "E", "V", "A", "L", "U", "E">>
IFCRELASSOCIATESMATERIAL == <<"I", "F", "C", "R", "E", "L", "A", "S", "S", "O", "C", "I", "A",
    "T", "E", "S", "M", "A", "T", "E", "R", "I", "A", "L">>
IFCMATERIAL == <<"I", "F", "C", "M", "A", "T", "E", "R", "I", "A", "L">>

\* Object.assign(target, source)
ObjectAssign(target, source) ==
    [key \in DOMAIN target \cup DOMAIN source |->
        IF key \in DOMAIN source THEN source[key] ELSE target[key]]

\* line 129: nomRaw.match(/^[A-Z0-9]+\((.+)\)$/); "." takes no line end
InnerMatch(nomRaw) ==
    LET typeEnd == RunEnd(nomRaw, 1, TypeChars)
        ok == /\ typeEnd >= 1
              /\ Len(nomRaw) >= typeEnd + 3
              /\ nomRaw[typeEnd + 1] = "(" /\ nomRaw[Len(nomRaw)] = ")"
              /\ \A k \in (typeEnd + 2)..(Len(nomRaw) - 1) : nomRaw[k] \notin {"\n", "\r"}
    IN  IF ok THEN [ok |-> TRUE, inner |-> SubSeq(nomRaw, typeEnd + 2, Len(nomRaw) - 1)]
        ELSE [ok |-> FALSE]

\* lines 126-131: propVal
PropVal(nomRaw) ==
    IF nomRaw = Undefined \/ nomRaw = <<>> \/ nomRaw = <<"$">> THEN Null
    ELSE LET m == InnerMatch(nomRaw) IN
         IF ~m.ok THEN nomRaw
         ELSE IF strArg(m.inner) = Null THEN m.inner ELSE strArg(m.inner)

\* lines 121-135: the properties the references from the k-th on add to props
RECURSIVE CollectProps(_, _, _, _)
CollectProps(entities, refs, k, props) ==
    IF k > Len(refs) THEN props
    ELSE IF ~MapHas(entities, refs[k])
            \/ MapGet(entities, refs[k]).type # IFCPROPERTYSINGLEVALUE
         THEN CollectProps(entities, refs, k + 1, props)
    ELSE LET propEnt == MapGet(entities, refs[k])
             propName == strArg(ArgAt(propEnt.args, 0))
             propVal == PropVal(ArgAt(propEnt.args, 2))
         IN  IF propName # Null /\ propName # <<>> /\ propVal # Null
             THEN CollectProps(entities, refs, k + 1,
                               ObjectAssign(props, [key \in {propName} |-> cleanValue(propVal)]))
             ELSE CollectProps(entities, refs, k + 1, props)

\* lines 138-144: props merged into the map of every related element
MergeInto(propIndex, related, props) ==
    [e \in DOMAIN propIndex \cup related |->
        IF e \in related
        THEN ObjectAssign(IF e \in DOMAIN propIndex THEN propIndex[e] ELSE EmptyObject, props)
        ELSE propIndex[e]]

\* the property set a relationship entity refers to, as a set: none is empty
RelatingSet(entities, ent) ==
    {id \in refId(ArgAt(ent.args, 5)) :
        MapHas(entities, id) /\ MapGet(entities, id).type = IFCPROPERTYSET}

\* lines 104-145: the entities from the k-th on, in the order of the Map
RECURSIVE BuildPropIndex(_, _, _)
BuildPropIndex(entities, k, propIndex) ==
    IF k > Len(entities) THEN propIndex
    ELSE LET ent == entities[k] IN
         IF ent.type # IFCRELDEFINESBYPROPERTIES \/ RelatingSet(entities, ent) = {}
         THEN BuildPropIndex(entities, k + 1, propIndex)
         ELSE LET psetEnt == MapGet(entities, CHOOSE id \in RelatingSet(entities, ent) : TRUE)
                  props == CollectProps(entities, Refs(ArgAt(psetEnt.args, 4)), 1, EmptyObject)
              IN  BuildPropIndex(entities, k + 1,
                                 MergeInto(propIndex, Range(Refs(ArgAt(ent.args, 4))), props))

\* lines 155-161: the material name of an association, as a set: none is empty
MatName(entities, ent) ==
    {name \in {strArg(ArgAt(MapGet(entities, id).args, 0)) :
                  id \in {ref \in refId(ArgAt(ent.args, 5)) :
                             /\ MapHas(entities, ref)
                             /\ MapGet(entities, ref).type = IFCMATERIAL}} :
        name # Null /\ name # <<>>}

\* lines 150-170
RECURSIVE BuildMatIndex(_, _, _)
BuildMatIndex(entities, k, matIndex) ==
    IF k > Len(entities) THEN matIndex
    ELSE LET ent == entities[k] IN
         IF ent.type # IFCRELASSOCIATESMATERIAL \/ MatName(entities, ent) = {}
         THEN BuildMatIndex(entities, k + 1, matIndex)
         ELSE LET matName == CHOOSE name \in MatName(entities, ent) : TRUE
                  related == Range(Refs(ArgAt(ent.args, 4)))
              IN  BuildMatIndex(entities, k + 1,
                                [e \in DOMAIN matIndex \cup related |->
                                    IF e \in related THEN matName ELSE matIndex[e]])

Material == <<"M", "a", "t", "e", "r", "i", "a", "l">>

\* strArg(arg) ?? ''
OrEmpty(str) == IF str = Null THEN <<>> ELSE str

\* lines 93-99 and 173-184: one element
Element(ent, propIndex, matIndex) ==
    LET properties == IF ent.id \in DOMAIN propIndex THEN propIndex[ent.id] ELSE EmptyObject IN
    [guid |-> OrEmpty(strArg(ArgAt(ent.args, 0))),
     name |-> OrEmpty(strArg(ArgAt(ent.args, 2))),
     properties |-> IF ent.id \in DOMAIN matIndex
                    THEN ObjectAssign(properties, [key \in {Material} |-> matIndex[ent.id]])
                    ELSE properties]

\* parseIfcBuffer(buffer), text the characters of the buffer.  Nothing in
\* the body throws, so the catch of line 187 is never entered.  elementIds
\* is the list of lines 90-99; results[k] is the element of elementIds[k].
parseIfcBuffer(text) ==
    LET entities == ScanEntities(text, 1, <<>>)
        elements == SelectSeq(entities, LAMBDA ent : ent.type \in ELEMENT_TYPES)
        propIndex == BuildPropIndex(entities, 1, EmptyObject)
        matIndex == BuildMatIndex(entities, 1, EmptyObject)
    IN  [entities |-> entities,
         elementIds |-> [k \in 1..Len(elements) |-> elements[k].id],
         results |-> [k \in 1..Len(elements) |-> Element(elements[k], propIndex, matIndex)]]

\* The argument texts of the model: every text of up to MaxArgLen characters
\* of the alphabet, and some longer ones
MaxArgLen == 6
ArgAlphabet == {"a", ",", "(", ")", Quote, " "}
ArgSamples ==
    {<<Quote, "a", Quote, Quote, "b", Quote, ",", "c">>,                \* 'a''b',c
     <<Quote, Quote, ",", "a", ",", "(", "a", ",", "a", ")">>,          \* '',a,(a,a)
     <<"a", ",", "(", "a", ",", "(", "a", ",", "a", ")", ")", ",", "$">>,
                                                                        \* a,(a,(a,a)),$
     <<Quote, "(", ",", Quote, ",", "(", Quote, ")", Quote, ",", "a", ")", ",", "a">>}
                                                                        \* '(,',(')',a),a
ArgTexts == UNION {[1..n -> ArgAlphabet] : n \in 0..MaxArgLen} \cup ArgSamples

InitArgs ==
    /\ raw \in ArgTexts
    /\ argPc = "input"
    /\ args = <<>>

ParseArgs ==
    /\ argPc = "input"
    /\ args' = parseArgs(raw)
    /\ argPc' = "done"
    /\ UNCHANGED <<raw, exceptArgs>>

\* The files of the model.  A declaration is its text and the id it declares;
\* a file is a list of declarations, one a line.
\* #5=IFCBEAM('g5',$,'B5');
Beam5 ==
    [id |-> 5,
     text |-> <<"#", "5", "=", "I", "F", "C", "B", "E", "A", "M", "(", "'", "g", "5", "'", ",", "$", ",",
              "'", "B", "5", "'", ")", ";">>]
\* #6 = IFCWALL ('g6',$,'W6') ;
Wall6 ==
    [id |-> 6,
     text |-> <<"#", "6", " ", "=", " ", "I", "F", "C", "W", "A", "L", "L", " ", "(", "'", "g", "6", "'",
              ",", "$", ",", "'", "W", "6", "'", ")", " ", ";">>]
\* declarations that do not have the shape #<id> = <TYPE>(<args>);
\* #60=IFCWALL('g60',$,'W60'
Unclosed60 ==
    [id |-> 60,
     text |-> <<"#", "6", "0", "=", "I", "F", "C", "W", "A", "L", "L", "(", "'", "g", "6", "0", "'", ",",
              "$", ",", "'", "W", "6", "0", "'">>]
\* #7=ifcwall('g7',$,'W7');
LowerCase7 ==
    [id |-> 7,
     text |-> <<"#", "7", "=", "i", "f", "c", "w", "a", "l", "l", "(", "'", "g", "7", "'", ",", "$", ",",
              "'", "W", "7", "'", ")", ";">>]
\* #8=IFCWALL('g;8',$,'W8');
SemiColon8 ==
    [id |-> 8,
     text |-> <<"#", "8", "=", "I", "F", "C", "W", "A", "L", "L", "(", "'", "g", ";", "8", "'", ",", "$",
              ",", "'", "W", "8", "'", ")", ";">>]
\* ISO-10303-21;
Header ==
    [id |-> 0,
     text |-> <<"I", "S", "O", "-", "1", "0", "3", "0", "3", "-", "2", "1", ";">>]

MaxDecls == 3        \* declarations of a file of well-formed and malformed lines

WellFormedDecls == {Beam5, Wall6}
MalformedDecls == {Unclosed60, LowerCase7, SemiColon8, Header}
MixedFiles == UNION {[1..n -> WellFormedDecls \cup MalformedDecls] : n \in 0..MaxDecls}

\* the orders of a set of declarations
Orders(decls) ==
    {f \in [1..Cardinality(decls) -> decls] : \A d \in decls : \E k \in DOMAIN f : f[k] = d}

\* a property of element #5: relationship #30, property set #20, property #12
\* #30=IFCRELDEFINESBYPROPERTIES('r',$,$,$,(#5),#20);
Rel30 ==
    [id |-> 30,
     text |-> <<"#", "3", "0", "=", "I", "F", "C", "R", "E", "L", "D", "E", "F", "I", "N", "E", "S", "B",
              "Y", "P", "R", "O", "P", "E", "R", "T", "I", "E", "S", "(", "'", "r", "'", ",",
              "$", ",", "$", ",", "$", ",", "(", "#", "5", ")", ",", "#", "2", "0", ")", ";">>]
\* #20=IFCPROPERTYSET('p',$,'PS',$,(#12));
Pset20 ==
    [id |-> 20,
     text |-> <<"#", "2", "0", "=", "I", "F", "C", "P", "R", "O", "P", "E", "R", "T", "Y", "S", "E", "T",
              "(", "'", "p", "'", ",", "$", ",", "'", "P", "S", "'", ",", "$", ",", "(", "#",
              "1", "2", ")", ")", ";">>]
\* #12=IFCPROPERTYSINGLEVALUE('Span',$,<nominal>,$);
Prop12(nominal) ==
    [id |-> 12,
     text |-> <<"#", "1", "2", "=", "I", "F", "C", "P", "R", "O", "P", "E", "R", "T", "Y", "S", "I", "N",
              "G", "L", "E", "V", "A", "L", "U", "E", "(", "'", "S", "p", "a", "n", "'", ",",
              "$", ",">>
             \o nominal \o <<",", "$", ")", ";">>]
Span == <<"S", "p", "a", "n">>

\* nominal values T(v): the text, the value the code keeps, and the value
\* that is v without wrapper and quotes and, when v is digits and a final
\* ".", without that dot
NominalCases ==
    {[nominal |-> <<"I", "F", "C", "R", "E", "A", "L", "(", "4", ".", ")">>,
      kept |-> <<"4">>, plain |-> <<"4">>],
     [nominal |-> <<"I", "F", "C", "L", "A", "B", "E", "L", "(", "'", "S", "3", "5", "5", "'", ")">>,
      kept |-> <<"S", "3", "5", "5">>, plain |-> <<"S", "3", "5", "5">>],
     [nominal |-> <<"I", "F", "C", "B", "O", "O", "L", "E", "A", "N", "(", ".", "T", ".", ")">>,
      kept |-> <<"t", "r", "u", "e">>, plain |-> <<".", "T", ".">>],
     [nominal |-> <<"I", "F", "C", "L", "O", "G", "I", "C", "A", "L", "(", ".", "F", ".", ")">>,
      kept |-> <<"f", "a", "l", "s", "e">>, plain |-> <<".", "F", ".">>],
     [nominal |-> <<"I", "F", "C", "T", "E", "X", "T", "(", "'", "A", "4", ".", "'", ")">>,
      kept |-> <<"A", "4">>, plain |-> <<"A", "4", ".">>],
     [nominal |-> <<"I", "F", "C", "L", "A", "B", "E", "L", "(", "'", "i", "t", "'", "'", "s", "'", ")">>,
      kept |-> <<"i", "t", "'", "s">>, plain |-> <<"i", "t", "'", "s">>]}
\* a nominal value that is not given
NoNominal == <<"$">>

PropertyFiles ==
    UNION {Orders({Beam5, Rel30, Pset20, Prop12(nominal)}) :
              nominal \in {c.nominal : c \in NominalCases} \cup {NoNominal}}

\* two property sets of element #5 that both define Span
\* #<id>=IFCRELDEFINESBYPROPERTIES('r',$,$,$,(#5),#20);
RelA(id) ==
    [id |-> id,
     text |-> <<"#">> \o NatDigits(id) \o
             <<"=", "I", "F", "C", "R", "E", "L", "D", "E", "F", "I", "N", "E", "S", "B", "Y", "P", "R",
              "O", "P", "E", "R", "T", "I", "E", "S", "(", "'", "r", "'", ",", "$", ",", "$",
              ",", "$", ",", "(", "#", "5", ")", ",", "#", "2", "1", ")", ";">>]
\* #<id>=IFCRELDEFINESBYPROPERTIES('r',$,$,$,(#5),#22);
RelB(id) ==
    [id |-> id,
     text |-> <<"#">> \o NatDigits(id) \o
             <<"=", "I", "F", "C", "R", "E", "L", "D", "E", "F", "I", "N", "E", "S", "B", "Y", "P", "R",
              "O", "P", "E", "R", "T", "I", "E", "S", "(", "'", "r", "'", ",", "$", ",", "$",
              ",", "$", ",", "(", "#", "5", ")", ",", "#", "2", "2", ")", ";">>]
\* an entity of no use that declares the id first
Placeholder(id) ==
    [id |-> id,
     text |-> <<"#">> \o NatDigits(id) \o <<"=", "I", "F", "C", "X", "(", ")", ";">>]
\* #21=IFCPROPERTYSET('p',$,'A',$,(#11,#13));
Pset21 ==
    [id |-> 21,
     text |-> <<"#", "2", "1", "=", "I", "F", "C", "P", "R", "O", "P", "E", "R", "T", "Y", "S", "E", "T",
              "(", "'", "p", "'", ",", "$", ",", "'", "A", "'", ",", "$", ",", "(", "#", "1",
              "1", ",", "#", "1", "3", ")", ")", ";">>]
\* #22=IFCPROPERTYSET('p',$,'B',$,(#14,#15));
Pset22 ==
    [id |-> 22,
     text |-> <<"#", "2", "2", "=", "I", "F", "C", "P", "R", "O", "P", "E", "R", "T", "Y", "S", "E", "T",
              "(", "'", "p", "'", ",", "$", ",", "'", "B", "'", ",", "$", ",", "(", "#", "1",
              "4", ",", "#", "1", "5", ")", ")", ";">>]
\* #11=IFCPROPERTYSINGLEVALUE('Span',$,IFCREAL(4.),$);
Prop11 ==
    [id |-> 11,
     text |-> <<"#", "1", "1", "=", "I", "F", "C", "P", "R", "O", "P", "E", "R", "T", "Y", "S", "I", "N",
              "G", "L", "E", "V", "A", "L", "U", "E", "(", "'", "S", "p", "a", "n", "'", ",",
              "$", ",", "I", "F", "C", "R", "E", "A", "L", "(", "4", ".", ")", ",", "$", ")",
              ";">>]
\* #13=IFCPROPERTYSINGLEVALUE('Grade',$,IFCLABEL('S355'),$);
Prop13 ==
    [id |-> 13,
     text |-> <<"#", "1", "3", "=", "I", "F", "C", "P", "R", "O", "P", "E", "R", "T", "Y", "S", "I", "N",
              "G", "L", "E", "V", "A", "L", "U", "E", "(", "'", "G", "r", "a", "d", "e", "'",
              ",", "$", ",", "I", "F", "C", "L", "A", "B", "E", "L", "(", "'", "S", "3", "5",
              "5", "'", ")", ",", "$", ")", ";">>]
\* #14=IFCPROPERTYSINGLEVALUE('Span',$,IFCREAL(6.),$);
Prop14 ==
    [id |-> 14,
     text |-> <<"#", "1", "4", "=", "I", "F", "C", "P", "R", "O", "P", "E", "R", "T", "Y", "S", "I", "N",
              "G", "L", "E", "V", "A", "L", "U", "E", "(", "'", "S", "p", "a", "n", "'", ",",
              "$", ",", "I", "F", "C", "R", "E", "A", "L", "(", "6", ".", ")", ",", "$", ")",
              ";">>]
\* #15=IFCPROPERTYSINGLEVALUE('Fire',$,IFCLABEL('R60'),$);
Prop15 ==
    [id |-> 15,
     text |-> <<"#", "1", "5", "=", "I", "F", "C", "P", "R", "O", "P", "E", "R", "T", "Y", "S", "I", "N",
              "G", "L", "E", "V", "A", "L", "U", "E", "(", "'", "F", "i", "r", "e", "'", ",",
              "$", ",", "I", "F", "C", "L", "A", "B", "E", "L", "(", "'", "R", "6", "0", "'",
              ")", ",", "$", ")", ";">>]
Grade == <<"G", "r", "a", "d", "e">>
Fire == <<"F", "i", "r", "e">>
S355 == <<"S", "3", "5", "5">>
R60 == <<"R", "6", "0">>

SetsAndProps == <<Pset21, Pset22, Prop11, Prop13, Prop14, Prop15>>
RelIds == {31, 32}

\* the element and the two relationships in every order, the sets and
\* properties before or after them, an id declared first by a placeholder
MergeFiles ==
    UNION {{head \o f \o SetsAndProps, head \o SetsAndProps \o f} :
              f \in UNION {Orders({Beam5, RelA(ids[1]), RelB(ids[2])}) :
                              ids \in {p \in RelIds \X RelIds : p[1] # p[2]}},
              head \in {<<>>} \cup {<<Placeholder(id)>> : id \in RelIds}}

\* a material of element #5: association #40, material entity #50
\* #40=IFCRELASSOCIATESMATERIAL('r',$,$,$,(#5),#50);
Assoc40 ==
    [id |-> 40,
     text |-> <<"#", "4", "0", "=", "I", "F", "C", "R", "E", "L", "A", "S", "S", "O", "C", "I", "A", "T",
              "E", "S", "M", "A", "T", "E", "R", "I", "A", "L", "(", "'", "r", "'", ",", "$",
              ",", "$", ",", "$", ",", "(", "#", "5", ")", ",", "#", "5", "0", ")", ";">>]
\* #52=IFCMATERIAL('Concrete');
Mat52 ==
    [id |-> 52,
     text |-> <<"#", "5", "2", "=", "I", "F", "C", "M", "A", "T", "E", "R", "I", "A", "L", "(", "'", "C",
              "o", "n", "c", "r", "e", "t", "e", "'", ")", ";">>]
\* #53=IFCMATERIAL('Timber');
Mat53 ==
    [id |-> 53,
     text |-> <<"#", "5", "3", "=", "I", "F", "C", "M", "A", "T", "E", "R", "I", "A", "L", "(", "'", "T",
              "i", "m", "b", "e", "r", "'", ")", ";">>]
Mat50(form) ==
    [id |-> 50, text |-> <<"#", "5", "0", "=">> \o form \o <<";">>]

\* the four forms of a material entity and the name each resolves to: the
\* material's, the layer set's, the layer's material's, the list's first
MaterialForms ==
    {[form |-> <<"I", "F", "C", "M", "A", "T", "E", "R", "I", "A", "L", "(", "'", "S", "t", "e", "e", "l",
               "'", ")">>,
      name |-> <<"S", "t", "e", "e", "l">>],
     [form |-> <<"I", "F", "C", "M", "A", "T", "E", "R", "I", "A", "L", "L", "A", "Y", "E", "R", "S", "E",
               "T", "(", "(", "#", "5", "1", ")", ",", "'", "L", "S", "'", ")">>,
      name |-> <<"L", "S">>],
     [form |-> <<"I", "F", "C", "M", "A", "T", "E", "R", "I", "A", "L", "L", "A", "Y", "E", "R", "(", "#",
               "5", "2", ",", "0", ".", "2", ",", "$", ")">>,
      name |-> <<"C", "o", "n", "c", "r", "e", "t", "e">>],
     [form |-> <<"I", "F", "C", "M", "A", "T", "E", "R", "I", "A", "L", "L", "I", "S", "T", "(", "(", "#",
               "5", "2", ",", "#", "5", "3", ")", ")">>,
      name |-> <<"C", "o", "n", "c", "r", "e", "t", "e">>]}
DirectMaterial == CHOOSE c \in MaterialForms : c.name = <<"S", "t", "e", "e", "l">>

MaterialFiles ==
    UNION {Orders({Beam5, Assoc40, Mat50(c.form), Mat52}) \cup
           {<<Beam5, Assoc40, Mat50(c.form), Mat52, Mat53>>} : c \in MaterialForms}

IfcFiles == MixedFiles \cup PropertyFiles \cup MergeFiles \cup MaterialFiles

\* the text of a file: its declarations, each followed by a line end
RECURSIVE FileText(_)
FileText(decls) ==
    IF Len(decls) = 0 THEN <<>>
    ELSE decls[1].text \o <<"\n">> \o FileText(SubSeq(decls, 2, Len(decls)))

InitIfc ==
    /\ ifcText \in IfcFiles
    /\ ifcPc = "input"
    /\ ifcOut = <<>>

ParseIfc ==
    /\ ifcPc = "input"
    /\ ifcOut' = parseIfcBuffer(FileText(ifcText))
    /\ ifcPc' = "done"
    /\ UNCHANGED <<ifcText, exceptIfc>>

-----------------------------------------------------------------------------
(* POST /api/upload: upload/route.ts lines 109-333 *)

\* how many requests the model handles, one after the other
MaxUploads == 2

WellFormed0 == Container(GLB_MAGIC, JSON_CHUNK_TYPE, 4, NoNodesText \o Pad(2, 32))
WellFormed1 == Container(GLB_MAGIC, JSON_CHUNK_TYPE, 24, OneNodeText)
BadMagic == Container(0, JSON_CHUNK_TYPE, 24, OneNodeText)
BadChunkType == Container(GLB_MAGIC, BIN_CHUNK_TYPE, 24, OneNodeText)
PastEnd == Container(GLB_MAGIC, JSON_CHUNK_TYPE, 26, OneNodeText)
EightZeroBytes == Pad(8, 0)      \* glbFile() of the route's tests

WellFormedBrackets == Container(GLB_MAGIC, JSON_CHUNK_TYPE, 100, BracketNodesText)

UploadFiles == {WellFormed0, WellFormed1, BadMagic, BadChunkType, PastEnd, EightZeroBytes}

WellFormedCleaned == Container(GLB_MAGIC, JSON_CHUNK_TYPE, 84, CleanedNodesText \o Pad(3, 32))

\* io.writeBinary of a document, by its nodes
WrittenContainer(doc) ==
    CASE doc = NoNodesDoc -> WellFormed0
      [] doc = OneNodeDoc -> WellFormed1
      [] doc = BracketNodesDoc -> WellFormedBrackets
      [] doc = CleanedNodesDoc -> WellFormedCleaned

\* what optimizeGlbForAR can return: it writes a well-formed container, its
\* nodes as cleanExtras left them
OptimizedOutputs ==
    {WrittenContainer(cleanExtras(doc)) : doc \in {NoNodesDoc, OneNodeDoc, BracketNodesDoc}}

Sheets == {"", "S-101"}

\* The 'ifc' field of the form: not given, a file whose bytes cannot be read
\* (arrayBuffer() rejects), or a file of declarations.
NoIfc == [given |-> FALSE, readable |-> FALSE, decls |-> <<>>]
UnreadableIfc == [given |-> TRUE, readable |-> FALSE, decls |-> <<>>]
IfcOf(decls) == [given |-> TRUE, readable |-> TRUE, decls |-> decls]

\* #<id>=IFCBEAM('g',$,'<name>');
NamedBeam(id, name) ==
    [id |-> id,
     text |-> <<"#">> \o NatDigits(id)
              \o <<"=", "I", "F", "C", "B", "E", "A", "M", "(", "'", "g", "'", ",", "$", ",", "'">>
              \o name \o <<"'", ")", ";">>]
\* element #5 named B:5 with the property Span and the material Steel
PropertiesOfB5 ==
    <<NamedBeam(5, <<"B", ":", "5">>), Rel30, Pset20, Prop12(<<"I", "F", "C", "R", "E", "A", "L", "(", "4", ".", ")">>),
      Assoc40, Mat50(DirectMaterial.form)>>
IfcFields ==
    {UnreadableIfc,
     IfcOf(<<Header>>),                                          \* no element
     IfcOf(<<Beam5>>),                                           \* a name without ":digits"
     IfcOf(PropertiesOfB5),
     IfcOf(PropertiesOfB5 \o <<NamedBeam(6, <<"W", ":", "5">>)>>),  \* two names ending in :5
     IfcOf(<<NamedBeam(6, <<"W", ":", "6">>)>> \o PropertiesOfB5)}

\* the requests of the model: a container, a sheet number, an 'ifc' field
Requests ==
    {[file |-> file, sheet |-> sheet, ifc |-> NoIfc] : file \in UploadFiles, sheet \in Sheets}
    \cup {[file |-> WellFormedBrackets, sheet |-> "", ifc |-> ifc] : ifc \in IfcFields \cup {NoIfc}}
    \cup {[file |-> BadMagic, sheet |-> "", ifc |-> UnreadableIfc]}

RunningRequest(file, sheet, ifc) ==
    /\ upPc = "validate"
    /\ upFile = file
    /\ upSheet = sheet
    /\ upIfcFile = ifc
    /\ upIfcElements = <<>>
    /\ upIfcEnriched = 0
    /\ upGlbOnly = 0
    /\ upBody = <<>>
    /\ upBuffer = <<>>
    /\ upParse = "none"
    /\ upAnnotations = <<>>
    /\ upParentId = 0
    /\ upModelData = 0
    /\ upStorageError = FALSE
    /\ upDbError = FALSE
    /\ upResponse = 0

InitUpload ==
    /\ \E req \in Requests : RunningRequest(req.file, req.sheet, req.ifc)
    /\ upCount = 1
    /\ storage = {}
    /\ models = <<>>

IdleUpload ==
    /\ RunningRequest(<<>>, "", NoIfc)
    /\ upCount = 0
    /\ storage = {}
    /\ models = <<>>

Respond(status) ==
    /\ upResponse' = status
    /\ upPc' = "done"

\* lines 110-184: authentication, profile, form fields, extension, file bytes
Validate ==
    /\ upPc = "validate"
    /\ \E user, companyId, file, name, glbExtension \in BOOLEAN :
          IF ~user THEN Respond(401)
          ELSE IF ~companyId THEN Respond(403)
          ELSE IF ~file \/ ~name \/ ~glbExtension THEN Respond(400)
          ELSE /\ upPc' = "optimize"
               /\ upResponse' = 0
    /\ upBuffer' = IF upPc' = "optimize" THEN upFile ELSE upBuffer
    /\ UNCHANGED <<upFile, upSheet, upParse, upAnnotations, upParentId, upModelData,
                   upStorageError, upDbError, upCount, storage, models, upIfcVars, upBody, exceptUpload>>

\* lines 186-192: the optimizer's result replaces the buffer unless it throws
Optimize ==
    /\ upPc = "optimize"
    /\ \/ \E optimized \in OptimizedOutputs : upBuffer' = optimized
       \/ upBuffer' = upBuffer
    /\ upPc' = "ifc"
    /\ UNCHANGED <<upFile, upSheet, upParse, upAnnotations, upParentId, upModelData,
                   upStorageError, upDbError, upResponse, upCount, storage, models, upIfcVars, upBody, exceptUpload>>

\* line 199: ifcElements = parseIfcBuffer(ifcBuffer)
IfcElements(ifc) == parseIfcBuffer(FileText(ifc.decls)).results

\* lines 194-203 without the try/catch: a file that cannot be read ends the
\* request in the handler's own catch (lines 326-331)
ParseIfcFileUncaught ==
    /\ upPc = "ifc"
    /\ IF upIfcFile.given /\ ~upIfcFile.readable
       THEN /\ Respond(500)
            /\ UNCHANGED upIfcElements
       ELSE /\ upIfcElements' = IF upIfcFile.given THEN IfcElements(upIfcFile) ELSE <<>>
            /\ upPc' = "annotate"
            /\ UNCHANGED upResponse
    /\ UNCHANGED <<upFile, upSheet, upBuffer, upParse, upAnnotations, upParentId, upModelData,
                   upStorageError, upDbError, upCount, storage, models,
                   upIfcFile, upIfcEnriched, upGlbOnly, upBody, exceptUpload>>

\* lines 194-203: the elements of the 'ifc' file; none when there is no file
\* or reading it throws
ParseIfcFile ==
    /\ upPc = "ifc"
    /\ upIfcElements' = IF upIfcFile.given /\ upIfcFile.readable THEN IfcElements(upIfcFile)
                        ELSE <<>>
    /\ upPc' = "annotate"
    /\ UNCHANGED <<upFile, upSheet, upBuffer, upParse, upAnnotations, upParentId, upModelData,
                   upStorageError, upDbError, upResponse, upCount, storage, models,
                   upIfcFile, upIfcEnriched, upGlbOnly, upBody, exceptUpload>>

\* line 221: el.name.match(/:(\d+)$/), the digits after a ":" that end the name
ColonMatch(name) ==
    LET places == {p \in 1..(Len(name) - 1) :
                      name[p] = ":" /\ \A k \in (p + 1)..Len(name) : name[k] \in Digits}
    IN  IF places = {} THEN NoMatch ELSE SubSeq(name, SetMin(places) + 1, Len(name))

\* lines 219-225: Map<element id, properties>, a later element replacing an
\* earlier one of the same id
RECURSIVE IfcByElementId(_, _, _)
IfcByElementId(ifcElements, k, map) ==
    IF k > Len(ifcElements) THEN map
    ELSE LET match == ColonMatch(ifcElements[k].name) IN
         IfcByElementId(ifcElements, k + 1,
                        IF match = NoMatch THEN map
                        ELSE ObjectAssign(map, [key \in {match} |-> ifcElements[k].properties]))

\* line 234 keeping the keys the annotation had: { ...ann.metadata, ...ifcProps }
EnrichedMerged(ann, ifcProps) == [ann EXCEPT !.metadata = ObjectAssign(ann.metadata, ifcProps)]

\* line 234: { ...ann, metadata: ifcProps }
Enriched(ann, ifcProps) == [ann EXCEPT !.metadata = ifcProps]

\* lines 228-232: the annotations the callback replaces
Matched(ann, ifcByElementId) ==
    LET bracketMatch == BracketMatch(ann.label) IN
    bracketMatch # NoMatch /\ bracketMatch \in DOMAIN ifcByElementId

\* lines 213-236: the annotations after the merge and the count ifcEnriched
Enrich(annotations, ifcElements) ==
    IF Len(ifcElements) > 0
    THEN LET ifcByElementId == IfcByElementId(ifcElements, 1, EmptyObject) IN
         [annotations |->
              [i \in 1..Len(annotations) |->
                  IF Matched(annotations[i], ifcByElementId)
                  THEN Enriched(annotations[i], ifcByElementId[BracketMatch(annotations[i].label)])
                  ELSE annotations[i]],
          ifcEnriched |->
              Cardinality({i \in 1..Len(annotations) : Matched(annotations[i], ifcByElementId)})]
    ELSE [annotations |-> annotations, ifcEnriched |-> 0]

\* line 238 counting every annotation
GlbOnlyAll(annotations, ifcEnriched) == Len(annotations)

\* line 238: const glbOnly = annotations.length - ifcEnriched
GlbOnly(annotations, ifcEnriched) == Len(annotations) - ifcEnriched

\* lines 205-238 without the try/catch of 207-211: the error reaches the
\* handler's own catch (lines 326-331) and ends the request
ExtractAnnotationsUncaught ==
    /\ upPc = "annotate"
    /\ LET out == parseGlbAnnotations(upBuffer)
           merged == Enrich(IF out.threw THEN <<>> ELSE out.annotations, upIfcElements)
       IN /\ upParse' = IF out.threw THEN "threw" ELSE "ok"
          /\ upAnnotations' = merged.annotations
          /\ upIfcEnriched' = merged.ifcEnriched
          /\ upGlbOnly' = GlbOnly(merged.annotations, merged.ifcEnriched)
          /\ IF out.threw THEN Respond(500) ELSE upPc' = "store" /\ upResponse' = upResponse
    /\ UNCHANGED <<upFile, upSheet, upBuffer, upParentId, upModelData, upStorageError,
                   upDbError, upCount, storage, models, upIfcFile, upIfcElements, upBody,
                   exceptUpload>>

\* lines 205-238: the annotations of the buffer, or none when
\* parseGlbAnnotations throws; the merge of the exchange file's properties;
\* the two counts
ExtractAnnotations ==
    /\ upPc = "annotate"
    /\ LET out == parseGlbAnnotations(upBuffer)
           merged == Enrich(IF out.threw THEN <<>> ELSE out.annotations, upIfcElements)
       IN /\ upParse' = IF out.threw THEN "threw" ELSE "ok"
          /\ upAnnotations' = merged.annotations
          /\ upIfcEnriched' = merged.ifcEnriched
          /\ upGlbOnly' = GlbOnly(merged.annotations, merged.ifcEnriched)
    /\ upPc' = "store"
    /\ UNCHANGED <<upFile, upSheet, upBuffer, upParentId, upModelData, upStorageError, upDbError,
                   upResponse, upCount, storage, models, upIfcFile, upIfcElements, upBody,
                   exceptUpload>>

\* lines 240-261: the object is written, or the request ends with status 500
StorageUpload ==
    /\ upPc = "store"
    /\ \/ /\ storage' = storage \cup {[name |-> upCount, bytes |-> upBuffer]}
          /\ upStorageError' = FALSE
          /\ upPc' = "lookup"
          /\ upResponse' = 0
       \/ /\ upStorageError' = TRUE
          /\ Respond(500)
          /\ UNCHANGED storage
    /\ UNCHANGED <<upFile, upSheet, upBuffer, upParse, upAnnotations, upParentId,
                   upModelData, upDbError, upCount, models, upIfcVars, upBody, exceptUpload>>

\* .eq('sheet_number', ...).order('created_at').limit(1)
RECURSIVE FirstOfSheet(_, _, _)
FirstOfSheet(rows, sheet, i) ==
    IF i > Len(rows) THEN 0
    ELSE IF rows[i].sheet_number = sheet THEN i
    ELSE FirstOfSheet(rows, sheet, i + 1)

\* lines 263-278
LookupParent ==
    /\ upPc = "lookup"
    /\ LET existing == FirstOfSheet(models, upSheet, 1) IN
          upParentId' =
              IF upSheet # "" /\ existing # 0
              THEN (IF models[existing].parent_id # 0 THEN models[existing].parent_id
                    ELSE models[existing].id)
              ELSE 0
    /\ upPc' = "insert"
    /\ UNCHANGED <<upFile, upSheet, upBuffer, upParse, upAnnotations, upModelData,
                   upStorageError, upDbError, upResponse, upCount, storage, models, upIfcVars, upBody, exceptUpload>>

\* lines 280-293
InsertModel ==
    /\ upPc = "insert"
    /\ \/ /\ models' = Append(models, [id |-> Len(models) + 1,
                                       file |-> upCount,
                                       annotations |-> upAnnotations,
                                       sheet_number |-> upSheet,
                                       parent_id |-> upParentId])
          /\ upModelData' = Len(models) + 1
          /\ upDbError' = FALSE
       \/ /\ upModelData' = 0
          /\ upDbError' = TRUE
          /\ UNCHANGED models
    /\ upPc' = "update"
    /\ UNCHANGED <<upFile, upSheet, upBuffer, upParse, upAnnotations, upParentId,
                   upStorageError, upResponse, upCount, storage, upIfcVars, upBody, exceptUpload>>

\* lines 295-302: the first upload of a sheet becomes its own parent
UpdateParent ==
    /\ upPc = "update"
    /\ models' = IF upModelData # 0 /\ upSheet # "" /\ upParentId = 0
                 THEN [models EXCEPT ![upModelData].parent_id = upModelData]
                 ELSE models
    /\ upPc' = "respond"
    /\ UNCHANGED <<upFile, upSheet, upBuffer, upParse, upAnnotations, upParentId,
                   upModelData, upStorageError, upDbError, upResponse, upCount, storage, upIfcVars, upBody, exceptUpload>>

\* lines 304-325: a failed insert removes the stored object again
Finish ==
    /\ upPc = "respond"
    /\ IF upDbError
       THEN /\ storage' = {o \in storage : o.name # upCount}
            /\ Respond(500)
       ELSE /\ Respond(200)
            /\ UNCHANGED storage
    /\ upBody' = IF upDbError THEN <<>>
                 ELSE [annotations |-> models[upModelData].annotations,
                       ifcEnriched |-> upIfcEnriched, glbOnly |-> upGlbOnly]
    /\ UNCHANGED <<upFile, upSheet, upBuffer, upParse, upAnnotations, upParentId,
                   upModelData, upStorageError, upDbError, upCount, models, upIfcVars, exceptUpload>>

\* the next request arrives
NextRequest ==
    /\ upPc = "done"
    /\ upCount < MaxUploads
    /\ \E req \in Requests :
          /\ upPc' = "validate"
          /\ upFile' = req.file
          /\ upSheet' = req.sheet
          /\ upIfcFile' = req.ifc
    /\ upIfcElements' = <<>>
    /\ upIfcEnriched' = 0
    /\ upGlbOnly' = 0
    /\ upBody' = <<>>
    /\ upBuffer' = <<>>
    /\ upParse' = "none"
    /\ upAnnotations' = <<>>
    /\ upParentId' = 0
    /\ upModelData' = 0
    /\ upStorageError' = FALSE
    /\ upDbError' = FALSE
    /\ upResponse' = 0
    /\ upCount' = upCount + 1
    /\ UNCHANGED <<storage, models, exceptUpload>>

-----------------------------------------------------------------------------
(* optimizeGlbForAR: lib/glb-optimize.ts lines 88-125 and, with a colour map  *)
(* and the removal passes, part_007 lines 192-244.  A document is its          *)
(* primitives and its materials; a factor is a number of tenths.              *)

UpperLetters ==
    <<"A", "B", "C", "D", "E", "F", "G", "H", "I", "J", "K", "L", "M", "N", "O", "P", "Q", "R", "S", "T", "U", "V", "W", "X", "Y", "Z">>
LowerLetters ==
    <<"a", "b", "c", "d", "e", "f", "g", "h", "i", "j", "k", "l", "m", "n", "o", "p", "q", "r", "s", "t", "u", "v", "w", "x", "y", "z">>

\* String.prototype.toLowerCase that leaves the text as it is
ToLowerCaseAsIs(str) == str

\* String.prototype.toLowerCase
ToLowerCase(str) ==
    [k \in 1..Len(str) |->
        IF str[k] \in Range(UpperLetters)
        THEN LowerLetters[CHOOSE i \in 1..Len(UpperLetters) : UpperLetters[i] = str[k]]
        ELSE str[k]]

\* Primitive.Mode.TRIANGLES
TRIANGLES == 4

\* part_007 lines 26-34: every primitive of another mode is disposed
removeNonTrianglePrimitives(doc) ==
    [doc EXCEPT !.primitives = SelectSeq(@, LAMBDA prim : prim.mode = TRIANGLES)]

\* glb-optimize.ts lines 25-33: every primitive of another mode is given the
\* mode TRIANGLES
forceTriangles(doc) ==
    [doc EXCEPT !.primitives = [k \in 1..Len(@) |-> [@[k] EXCEPT !.mode = TRIANGLES]]]

\* part_007 lines 127-130: lowerMap, a later entry replacing an earlier one
\* of the same lower-case key
RECURSIVE LowerMap(_, _, _)
LowerMap(entries, k, lowerMap) ==
    IF k > Len(entries) THEN lowerMap
    ELSE LowerMap(entries, k + 1,
                  ObjectAssign(lowerMap,
                               [key \in {ToLowerCase(entries[k].key)} |-> entries[k].color]))

\* part_007 lines 126-138
applyColorMap(doc, colorMap) ==
    LET lowerMap == LowerMap(colorMap.entries, 1, EmptyObject) IN
    [doc EXCEPT !.materials =
        [k \in 1..Len(@) |->
            LET name == ToLowerCase(@[k].name) IN
            IF name \in DOMAIN lowerMap /\ Len(lowerMap[name]) >= 4
            THEN [@[k] EXCEPT !.baseColorFactor = SubSeq(lowerMap[name], 1, 4)]
            ELSE @[k]]]

\* the properties dedup() compares: all but the name
SameMaterial(a, b) ==
    /\ a.baseColorFactor = b.baseColorFactor
    /\ a.metallicFactor = b.metallicFactor
    /\ a.roughnessFactor = b.roughnessFactor

\* dedup() of @gltf-transform/functions on the materials: a material equal to
\* an earlier one is replaced by it
dedup(doc) ==
    LET first(k) == SetMin({i \in 1..k : SameMaterial(doc.materials[i], doc.materials[k])})
        kept == {k \in 1..Len(doc.materials) : first(k) = k}
        target(id) ==
            IF id = 0 THEN 0
            ELSE doc.materials[first(CHOOSE k \in 1..Len(doc.materials) :
                                         doc.materials[k].id = id)].id
    IN  [primitives |-> [k \in 1..Len(doc.primitives) |->
                            [doc.primitives[k] EXCEPT !.material = target(@)]],
         materials |-> SelectSeq(doc.materials,
                                 LAMBDA m : \E k \in kept : doc.materials[k].id = m.id)]

\* prune() of @gltf-transform/functions on the materials: a material no
\* primitive uses is removed
prune(doc) ==
    [doc EXCEPT !.materials =
        SelectSeq(@, LAMBDA m : \E k \in 1..Len(doc.primitives) :
                                   doc.primitives[k].material = m.id)]

\* [0.8, 0.8, 0.8, 1.0]
DefaultColor == <<8, 8, 8, 10>>

\* lines 69-81 of glb-optimize.ts, 150-162 of part_007
ensurePBR(doc) ==
    [doc EXCEPT !.materials =
        [k \in 1..Len(@) |->
            [@[k] EXCEPT
                !.baseColorFactor = IF \E i \in 1..Len(@) : @[i] = NaN THEN DefaultColor ELSE @,
                !.metallicFactor = IF @ = NaN \/ @ < 0 \/ @ > 10 THEN 0 ELSE @,
                !.roughnessFactor = IF @ = NaN \/ @ < 0 \/ @ > 10 THEN 10 ELSE @]]]

\* part_007 lines 171-186: one material 'Default' for the primitives without
ensureMaterials(doc) ==
    LET bare == {k \in 1..Len(doc.primitives) : doc.primitives[k].material = 0}
        fresh == 0 - 1      \* the created material is none of the input's
    IN  IF bare = {} THEN doc
        ELSE [primitives |-> [k \in 1..Len(doc.primitives) |->
                                 IF k \in bare
                                 THEN [doc.primitives[k] EXCEPT !.material = fresh]
                                 ELSE doc.primitives[k]],
              materials |-> Append(doc.materials,
                                   [id |-> fresh, name |-> <<"D", "e", "f", "a", "u", "l", "t">>,
                                    baseColorFactor |-> DefaultColor, metallicFactor |-> 0,
                                    roughnessFactor |-> 10])]

\* glb-optimize.ts lines 93-104: the transforms of the call
PipelineLib ==
    <<"metalRough", "dedup", "flatten", "prune", "weld", "normals", "generateMissingUVs",
      "cleanExtras", "forceTriangles", "ensurePBR">>

\* part_007 lines 200-223: the transforms of the call
PipelinePart007(colorMap) ==
    <<"removeAnimations", "removeSkinning", "removeCamerasAndLights",
      "removeNonTrianglePrimitives">>
    \o (IF colorMap.given /\ Len(colorMap.entries) > 0 THEN <<"applyColorMap">> ELSE <<>>)
    \o <<"metalRough", "dedup", "flatten", "prune", "weld", "normals", "generateMissingUVs",
         "cleanExtras", "ensurePBR", "ensureMaterials">>

Pipeline(in) ==
    IF in.module = "part_007" THEN PipelinePart007(in.colorMap) ELSE PipelineLib

\* what a transform does to the primitives and the materials; the transforms
\* that touch neither leave the document as it is
Apply(pass, doc, colorMap) ==
    CASE pass = "removeNonTrianglePrimitives" -> removeNonTrianglePrimitives(doc)
      [] pass = "forceTriangles" -> forceTriangles(doc)
      [] pass = "applyColorMap" -> applyColorMap(doc, colorMap)
      [] pass = "dedup" -> dedup(doc)
      [] pass = "prune" -> prune(doc)
      [] pass = "ensurePBR" -> ensurePBR(doc)
      [] pass = "ensureMaterials" -> ensureMaterials(doc)
      [] OTHER -> doc

\* weld() of @gltf-transform/functions, in the versions that drop the
\* indices left over after the last whole triangle
weldWholeTriangles(doc) ==
    [doc EXCEPT !.primitives =
        [k \in 1..Len(@) |->
            IF @[k].mode = TRIANGLES THEN [@[k] EXCEPT !.count = @ - (@ % 3)] ELSE @[k]]]

\* the documents a transform can leave: what the library's weld does with a
\* count that is no whole number of triangles is not fixed by this code
Outcomes(pass, doc, colorMap) ==
    IF pass = "weld" THEN {doc, weldWholeTriangles(doc)} ELSE {Apply(pass, doc, colorMap)}

\* const document = await io.readBinary(inputBuffer): a container that cannot
\* be read rejects
ReadBinary ==
    /\ optPc = "read"
    /\ IF optIn.readable
       THEN /\ optDoc' = optIn.document
            /\ optPc' = "transform"
       ELSE /\ optPc' = "threw"
            /\ UNCHANGED optDoc
    /\ UNCHANGED <<optIn, optRan, optFailed, exceptOptimize>>

\* document.transform with a transform that throws passed over: the next
\* one is called on the document as it was
TransformContinues ==
    /\ optPc = "transform"
    /\ LET pass == Pipeline(optIn)[Len(optRan) + 1] IN
          /\ optRan' = Append(optRan, pass)
          /\ \/ /\ optDoc' \in Outcomes(pass, optDoc, optIn.colorMap)
                /\ UNCHANGED optFailed
             \/ /\ optFailed' = Append(optFailed, pass)
                /\ UNCHANGED optDoc
          /\ optPc' = IF Len(optRan') = Len(Pipeline(optIn)) THEN "write" ELSE "transform"
    /\ UNCHANGED <<optIn, exceptOptimize>>

\* await document.transform(...): the transforms are called in order, each
\* awaited; one that throws rejects the call, and optimizeGlbForAR with it
Transform ==
    /\ optPc = "transform"
    /\ LET pass == Pipeline(optIn)[Len(optRan) + 1] IN
          /\ optRan' = Append(optRan, pass)
          /\ \/ /\ optDoc' \in Outcomes(pass, optDoc, optIn.colorMap)
                /\ optPc' = IF Len(optRan') = Len(Pipeline(optIn)) THEN "write" ELSE "transform"
                /\ UNCHANGED optFailed
             \/ /\ optFailed' = Append(optFailed, pass)
                /\ optPc' = "threw"
                /\ UNCHANGED optDoc
    /\ UNCHANGED <<optIn, exceptOptimize>>

\* the extensions disposed, the bounds read, io.writeBinary and
\* patchAccessorBounds: the document is written, or the write rejects
WriteBinaryOutput ==
    /\ optPc = "write"
    /\ \/ optPc' = "done"
       \/ optPc' = "threw"
    /\ UNCHANGED <<optIn, optDoc, optRan, optFailed, exceptOptimize>>

(* The containers and colour maps the model feeds to the optimizer *)

\* how many primitives a document has, how many entries a colour map
MaxPrims == 2
MaxEntries == 2

Steel == <<"S", "t", "e", "e", "l">>
STEEL == <<"S", "T", "E", "E", "L">>
steel == <<"s", "t", "e", "e", "l">>
Concrete == <<"C", "o", "n", "c", "r", "e", "t", "e">>
White == <<10, 10, 10, 10>>
Grey == <<3, 3, 3, 10>>
Red == <<10, 0, 0, 10>>
Green == <<0, 10, 0, 10>>
Blue == <<0, 0, 10, 10>>
Short == <<5, 5, 5>>               \* three numbers
OutOfRange == <<20, 0 - 10, 5, 10>>  \* [2.0, -1, 0.5, 1]

Mat(id, name, color, metallic) ==
    [id |-> id, name |-> name, baseColorFactor |-> color, metallicFactor |-> metallic,
     roughnessFactor |-> 5]
\* a primitive: its mode, its material (0 for none), whether it has a POSITION
\* attribute and an index accessor, and the count of its indices (of its
\* vertices when it has no index accessor)
PrimOf(id, mode, material, position, indexed, count) ==
    [id |-> id, mode |-> mode, material |-> material, position |-> position,
     indexed |-> indexed, count |-> count]
Prim(id, mode, material) == PrimOf(id, mode, material, TRUE, TRUE, 3)

\* colorMap: undefined, or an object as its entries in key order
NoColorMap == [given |-> FALSE, entries |-> <<>>]
ColorMapOf(entries) == [given |-> TRUE, entries |-> entries]
Entry(key, color) == [key |-> key, color |-> color]

OptInput(module, document, colorMap) ==
    [module |-> module, readable |-> TRUE, document |-> document, colorMap |-> colorMap]
EmptyDocument == [primitives |-> <<>>, materials |-> <<>>]

\* POINTS, LINES, TRIANGLES, TRIANGLE_STRIP
Modes == {0, 1, TRIANGLES, 5}

\* primitives of every mode, with and without a material, run by both modules
TopologyInputs ==
    {OptInput(module,
              [primitives |-> [k \in 1..n |-> Prim(k, modes[k], uses[k])],
               materials |-> <<Mat(1, Steel, White, 0), Mat(2, Concrete, Grey, 0)>>],
              NoColorMap) :
        module \in {"glb-optimize.ts", "part_007"},
        n \in 0..MaxPrims,
        modes \in [1..MaxPrims -> Modes], uses \in [1..MaxPrims -> 0..2]}

\* materials with factors ensurePBR replaces
InvalidFactorInputs ==
    {OptInput(module,
              [primitives |-> <<Prim(1, TRIANGLES, 1)>>,
               materials |-> <<Mat(1, Steel, color, metallic)>>],
              NoColorMap) :
        module \in {"glb-optimize.ts", "part_007"},
        color \in {White, <<NaN, 0, 0, 10>>, <<PosInfinity, 0, 0, 10>>, OutOfRange},
        metallic \in {0, 0 - 1, 11, NaN}}

ColorEntries ==
    {Entry(steel, Red), Entry(Steel, Blue), Entry(steel, Short),
     Entry(Concrete, Green), Entry(<<>>, Red), Entry(STEEL, OutOfRange)}
ColorMaps ==
    {NoColorMap}
    \cup {ColorMapOf(entries) :
            entries \in {e \in UNION {[1..n -> ColorEntries] : n \in 0..MaxEntries} :
                            \A i, j \in 1..Len(e) : i # j => e[i].key # e[j].key}}

\* two triangle primitives with a material each, every colour map
ColorInputs ==
    {OptInput("part_007",
              [primitives |-> <<Prim(1, TRIANGLES, 1), Prim(2, TRIANGLES, 2)>>,
               materials |-> <<Mat(1, names[1], White, 0), Mat(2, names[2], color, 0)>>],
              colorMap) :
        names \in {Steel, STEEL, Concrete, <<>>} \X {Steel, Concrete},
        color \in {White, Grey}, colorMap \in ColorMaps}

Unreadable ==
    {[module |-> module, readable |-> FALSE, document |-> EmptyDocument, colorMap |-> NoColorMap] :
        module \in {"glb-optimize.ts", "part_007"}}

\* the largest count of a primitive
MaxIndexCount == 7

\* one primitive, of lines or triangles, with and without a POSITION attribute, an index
\* accessor and a material, of every count
AttributeInputs ==
    {OptInput(module,
              [primitives |-> <<PrimOf(1, mode, material, position, indexed, count)>>,
               materials |-> <<Mat(1, Steel, White, 0)>>],
              NoColorMap) :
        module \in {"glb-optimize.ts", "part_007"}, mode \in {1, TRIANGLES}, material \in 0..1,
        position \in BOOLEAN, indexed \in BOOLEAN, count \in 0..MaxIndexCount}

OptInputs ==
    TopologyInputs \cup InvalidFactorInputs \cup ColorInputs \cup AttributeInputs
    \cup Unreadable

InitOptimize ==
    /\ optIn \in OptInputs
    /\ optPc = "read"
    /\ optDoc = EmptyDocument
    /\ optRan = <<>>
    /\ optFailed = <<>>

-----------------------------------------------------------------------------
(* convertGlbToUsdz and createUsdzZip of lib/glb-to-usdz.ts *)

\* lines 174-187: faceVertexCounts, Math.floor(n / 3) entries '3' for a
\* primitive of n indices (of n vertices when it has no index accessor)
FaceVertexCounts(n) == [i \in 1..(n \div 3) |-> 3]

\* the characters of [a-zA-Z0-9_]
IdentifierChars == Range(UpperLetters) \cup Range(LowerLetters) \cup Digits \cup {"_"}

\* lines 268-274
safeName(name) ==
    LET safe == [k \in 1..Len(name) |-> IF name[k] \in IdentifierChars THEN name[k] ELSE "_"]
    IN  IF Len(safe) = 0 THEN <<"_", "u", "n", "n", "a", "m", "e", "d">>
        ELSE IF safe[1] \in Digits THEN <<"_">> \o safe
        ELSE safe

\* a || b of two strings
OrElse(a, b) == IF a # <<>> THEN a ELSE b

\* lines 115-119: the first of base, base_1, base_2, ... that is not used
RECURSIVE FirstUnused(_, _, _, _)
FirstUnused(base, name, counter, usedMeshNames) ==
    IF name \in usedMeshNames
    THEN FirstUnused(base, base \o <<"_">> \o NatDigits(counter), counter + 1, usedMeshNames)
    ELSE name

\* getUniqueMeshName that gives the base name
getUniqueMeshNameAsBase(nodeName, meshName, usedMeshNames) ==
    safeName(OrElse(nodeName, OrElse(meshName, <<"M", "e", "s", "h">>)))

\* lines 112-123, the name returned
getUniqueMeshName(nodeName, meshName, usedMeshNames) ==
    LET base == safeName(OrElse(nodeName, OrElse(meshName, <<"M", "e", "s", "h">>)))
    IN  FirstUnused(base, base, 1, usedMeshNames)

DefaultMaterial == <<"D", "e", "f", "a", "u", "l", "t", "M", "a", "t", "e", "r", "i", "a", "l">>

\* lines 26-29: rawName of a material, the map having size entries
RawName(material, size) ==
    OrElse(material.name, <<"M", "a", "t", "e", "r", "i", "a", "l", "_">> \o NatDigits(size))

\* lines 26-53: materialNames and the names of the materials defined
RECURSIVE CollectMaterials(_, _, _, _)
CollectMaterials(materials, k, materialNames, materialDefs) ==
    IF k > Len(materials) THEN [materialNames |-> materialNames, materialDefs |-> materialDefs]
    ELSE LET rawName == RawName(materials[k], Cardinality(DOMAIN materialNames))
             name == safeName(rawName)
         IN  CollectMaterials(materials, k + 1,
                              ObjectAssign(materialNames, [key \in {rawName} |-> name]),
                              Append(materialDefs, name))

\* lines 56-73: DefaultMaterial is defined when no material was
WithDefault(materialDefs) ==
    IF Len(materialDefs) = 0 THEN <<DefaultMaterial>> ELSE materialDefs

\* lines 190-195: materialBinding of a primitive
MaterialBinding(doc, prim, materialNames) ==
    IF prim.material = 0 THEN DefaultMaterial
    ELSE LET rawName == doc.materials[prim.material].name
         IN  IF rawName \in DOMAIN materialNames /\ materialNames[rawName] # <<>>
             THEN materialNames[rawName]
             ELSE DefaultMaterial

\* lines 126-130: the primitives of the nodes that have a mesh, in order,
\* each with its node
RECURSIVE NodePrimitives(_, _)
NodePrimitives(doc, k) ==
    IF k > Len(doc.nodes) THEN <<>>
    ELSE [i \in 1..Len(doc.nodes[k].primitives) |->
              [node |-> doc.nodes[k], prim |-> doc.nodes[k].primitives[i]]]
         \o NodePrimitives(doc, k + 1)

\* lines 131-134: a primitive that is passed over
PassedOver(prim) == prim.mode # TRIANGLES \/ ~prim.position \/ prim.vertices = 0

\* lines 130-242: the definitions pushed to meshDefs
RECURSIVE MeshDefs(_, _, _, _, _, _)
MeshDefs(doc, entries, k, materialNames, usedMeshNames, meshDefs) ==
    IF k > Len(entries) THEN meshDefs
    ELSE IF PassedOver(entries[k].prim)
    THEN MeshDefs(doc, entries, k + 1, materialNames, usedMeshNames, meshDefs)
    ELSE LET prim == entries[k].prim
             meshName == getUniqueMeshName(entries[k].node.name, entries[k].node.mesh,
                                           usedMeshNames)
             n == IF prim.indexed THEN prim.count ELSE prim.vertices
         IN  MeshDefs(doc, entries, k + 1, materialNames, usedMeshNames \cup {meshName},
                      Append(meshDefs,
                             [meshName |-> meshName,
                              faceVertexCounts |-> FaceVertexCounts(n),
                              materialBinding |-> MaterialBinding(doc, prim, materialNames)]))

\* lines 15-265: the document emitted
ConvertedDocument(doc) ==
    LET collected == CollectMaterials(doc.materials, 1, EmptyObject, <<>>)
    IN  [meshDefs |-> MeshDefs(doc, NodePrimitives(doc, 1), 1, collected.materialNames, {}, <<>>),
         materialDefs |-> WithDefault(collected.materialDefs)]

(* The documents the model hands to convertGlbToUsdz *)

\* how many nodes and how many materials a document has
MaxUsdNodes == 3
MaxUsdMaterials == 2

UsdMaterial(name) == [name |-> name]
\* a primitive of a mesh: material is the place of its material in the
\* document's list, 0 for none
UsdPrim(mode, position, vertices, indexed, count, material) ==
    [mode |-> mode, position |-> position, vertices |-> vertices, indexed |-> indexed,
     count |-> count, material |-> material]
Triangle(material) == UsdPrim(TRIANGLES, TRUE, 3, TRUE, 3, material)
UsdNode(name, mesh, primitives) == [name |-> name, mesh |-> mesh, primitives |-> primitives]

\* node and mesh names: equal ones, ones that differ in a replaced
\* character, one equal to a suffixed one, ones with a leading digit
UsdNames ==
    {<<>>, <<"A">>, <<"A", "_", "1">>, <<"A", "-", "1">>, <<"A", " ", "1">>, <<"1">>,
     <<"_", "1">>, <<"A", "_", "1", "_", "1">>}
UsdMeshNames == {<<>>, <<"A">>, <<"M", "e", "s", "h", "_", "1">>}

NameDocuments ==
    {[nodes |-> [k \in 1..n |-> UsdNode(names[k], <<>>, <<Triangle(0)>>)],
      materials |-> <<>>] :
        n \in 0..MaxUsdNodes, names \in [1..MaxUsdNodes -> UsdNames]}
    \cup
    {[nodes |-> [k \in 1..2 |-> UsdNode(<<>>, meshes[k], <<Triangle(0), Triangle(0)>>)],
      materials |-> <<>>] :
        meshes \in [1..2 -> UsdMeshNames]}

UsdMaterialNames == {<<>>, <<"A", " ", "b">>, <<"A", "-", "b">>, Steel}
MaterialDocuments ==
    UNION {{[nodes |-> <<UsdNode(<<"A">>, <<>>, <<Triangle(uses[1]), Triangle(uses[2])>>)>>,
             materials |-> [k \in 1..n |-> UsdMaterial(names[k])]] :
               names \in [1..MaxUsdMaterials -> UsdMaterialNames], uses \in [1..2 -> 0..n]} :
           n \in 0..MaxUsdMaterials}

\* primitives of lines, without POSITION, without vertices, without indices
PrimitiveDocuments ==
    {[nodes |-> <<UsdNode(<<"A">>, <<>>, <<prim, Triangle(1)>>)>>,
      materials |-> <<UsdMaterial(Steel)>>] :
        prim \in {UsdPrim(mode, position, vertices, indexed, count, 1) :
                    mode \in {1, TRIANGLES}, position \in BOOLEAN, vertices \in {0, 3, 4},
                    indexed \in BOOLEAN, count \in {0, 3, 6, 7}}}

UsdDocuments ==
    {[nodes |-> d.nodes, materials |-> d.materials] :
        d \in NameDocuments \cup MaterialDocuments \cup PrimitiveDocuments}

InitUsdz ==
    /\ usdIn \in UsdDocuments
    /\ usdPc = "input"
    /\ usdOut = <<>>

ConvertGlbToUsdz ==
    /\ usdPc = "input"
    /\ usdOut' = ConvertedDocument(usdIn)
    /\ usdPc' = "done"
    /\ UNCHANGED <<usdIn, exceptUsdz>>

(* createUsdzZip, lines 279-358, and crc32, lines 360-369.  A 32-bit value *)
(* is its two halves of 16 bits, hi and lo.                                *)

Word32(hi, lo) == [hi |-> hi, lo |-> lo]

\* a ^ b on the lowest n bits
RECURSIVE Xor(_, _, _)
Xor(a, b, n) ==
    IF n = 0 THEN 0
    ELSE (((a % 2) + (b % 2)) % 2) + 2 * Xor(a \div 2, b \div 2, n - 1)

\* a ^ b on 32 bits
BitXor(a, b) == Word32(Xor(a.hi, b.hi, 16), Xor(a.lo, b.lo, 16))
\* a >> 1: the sign bit stays
ShiftRightSigned(a) ==
    Word32((a.hi \div 2) + (IF a.hi >= 32768 THEN 32768 ELSE 0),
           (a.lo \div 2) + 32768 * (a.hi % 2))
\* a >>> 1
ShiftRight(a) == Word32(a.hi \div 2, (a.lo \div 2) + 32768 * (a.hi % 2))

\* 0xFFFFFFFF and 0xEDB88320
AllOnes == Word32(65535, 65535)
Polynomial == Word32(60856, 33568)

\* line 365: one step
CrcStep(crc) ==
    IF crc.lo % 2 = 1 THEN BitXor(ShiftRight(crc), Polynomial) ELSE ShiftRight(crc)

\* lines 364-366: the eight steps for one byte
CrcSteps(crc) == CrcStep(CrcStep(CrcStep(CrcStep(CrcStep(CrcStep(CrcStep(CrcStep(crc))))))))

\* lines 362-367 (the test of next makes it a value before the next round)
RECURSIVE CrcLoop(_, _, _)
CrcLoop(data, i, crc) ==
    IF i > Len(data) THEN crc
    ELSE LET next == CrcSteps(BitXor(crc, Word32(0, data[i])))
         IN  IF next.lo >= 0 THEN CrcLoop(data, i + 1, next) ELSE next

\* lines 360-369: (crc ^ 0xFFFFFFFF) >>> 0, an unsigned value
crc32(data) == BitXor(CrcLoop(data, 1, AllOnes), AllOnes)

\* DataView.setUint16 and setUint32, little-endian
Uint16LE(n) == <<n % 256, (n \div 256) % 256>>
Word32LE(word) == Uint16LE(word.lo) \o Uint16LE(word.hi)

\* 'model.usda'
fileName == <<109, 111, 100, 101, 108, 46, 117, 115, 100, 97>>

\* no padding at all
paddingNone(localHeaderSize) == 0
\* line 287
paddingNeeded(localHeaderSize) == (64 - (localHeaderSize % 64)) % 64

\* lines 279-358: the bytes of the archive
createUsdzZip(usda) ==
    LET fileNameBytes == fileName
        fileData == BufferFromUtf8(usda)
        localHeaderSize == 30 + Len(fileNameBytes)
        padding == paddingNeeded(localHeaderSize)
        paddedFileNameBytes == fileNameBytes \o [k \in 1..padding |-> 0]
        localHeader ==
            LE32(67324752) \o Uint16LE(20) \o Uint16LE(0) \o Uint16LE(0) \o Uint16LE(0)
            \o Uint16LE(0) \o Word32LE(crc32(fileData)) \o LE32(Len(fileData))
            \o LE32(Len(fileData)) \o Uint16LE(Len(fileNameBytes) + padding) \o Uint16LE(0)
        dataOffset == 30 + Len(fileNameBytes) + padding
        centralDir ==
            LE32(33639248) \o Uint16LE(20) \o Uint16LE(20) \o Uint16LE(0) \o Uint16LE(0)
            \o Uint16LE(0) \o Uint16LE(0) \o Word32LE(crc32(fileData)) \o LE32(Len(fileData))
            \o LE32(Len(fileData)) \o Uint16LE(Len(fileNameBytes)) \o Uint16LE(0)
            \o Uint16LE(0) \o Uint16LE(0) \o Uint16LE(0) \o LE32(0) \o LE32(0)
        cdOffset == dataOffset + Len(fileData)
        cdSize == 46 + Len(fileNameBytes)
        eocd ==
            LE32(101010256) \o Uint16LE(0) \o Uint16LE(0) \o Uint16LE(1) \o Uint16LE(1)
            \o LE32(cdSize) \o LE32(cdOffset) \o Uint16LE(0)
    IN  localHeader \o paddedFileNameBytes \o fileData \o centralDir \o fileNameBytes \o eocd

(* The texts the model hands to createUsdzZip: code points *)

MaxUsdaLen == 3
\* a # newline e-acute euro
UsdaAlphabet == {97, 35, 10, 233, 8364}
\* 'abc' and '123456789'
UsdaSamples == {<<97, 98, 99>>, <<49, 50, 51, 52, 53, 54, 55, 56, 57>>}
UsdaTexts == UNION {[1..n -> UsdaAlphabet] : n \in 0..MaxUsdaLen} \cup UsdaSamples

InitZip ==
    /\ zipIn \in UsdaTexts
    /\ zipPc = "input"
    /\ zipOut = <<>>

CreateUsdzZip ==
    /\ zipPc = "input"
    /\ zipOut' = createUsdzZip(zipIn)
    /\ zipPc' = "done"
    /\ UNCHANGED <<zipIn, exceptZip>>

-----------------------------------------------------------------------------
(* POST /api/upload, lines 263-302, run by several requests of one company *)
(* at once: each await is a step of its own, the table is shared.          *)

\* how many requests run at once
MaxUploaders == 2
Uploaders == 1..MaxUploaders
RaceSheets == {"", "S-101", "S-102"}

InitRace ==
    /\ rcPc = [u \in Uploaders |-> "lookup"]
    /\ rcSheet \in [Uploaders -> RaceSheets]
    /\ rcParentId = [u \in Uploaders |-> 0]
    /\ rcModelData = [u \in Uploaders |-> 0]
    /\ rcModels = <<>>

\* lines 265-278: parentId of a request, read from the table as it is now
ParentIdFor(rows, sheet) ==
    LET existing == FirstOfSheet(rows, sheet, 1) IN
    IF sheet # "" /\ existing # 0
    THEN (IF rows[existing].parent_id # 0 THEN rows[existing].parent_id
          ELSE rows[existing].id)
    ELSE 0

\* lines 263-278
RaceLookup ==
    \E u \in Uploaders :
        /\ rcPc[u] = "lookup"
        /\ rcParentId' = [rcParentId EXCEPT ![u] = ParentIdFor(rcModels, rcSheet[u])]
        /\ rcPc' = [rcPc EXCEPT ![u] = "insert"]
        /\ UNCHANGED <<rcSheet, rcModelData, rcModels, exceptRace>>

\* lines 280-293: the row is inserted, or the insert fails
RaceInsert ==
    \E u \in Uploaders :
        /\ rcPc[u] = "insert"
        /\ \/ /\ rcModels' = Append(rcModels, [id |-> Len(rcModels) + 1,
                                                sheet_number |-> rcSheet[u],
                                                parent_id |-> rcParentId[u]])
              /\ rcModelData' = [rcModelData EXCEPT ![u] = Len(rcModels) + 1]
              /\ rcPc' = [rcPc EXCEPT ![u] = "update"]
           \/ /\ rcPc' = [rcPc EXCEPT ![u] = "failed"]
              /\ UNCHANGED <<rcModelData, rcModels>>
        /\ UNCHANGED <<rcSheet, rcParentId, exceptRace>>

\* lines 295-302: the first upload of a sheet becomes its own parent
RaceUpdate ==
    \E u \in Uploaders :
        /\ rcPc[u] = "update"
        /\ rcModels' = IF rcSheet[u] # "" /\ rcParentId[u] = 0
                       THEN [rcModels EXCEPT ![rcModelData[u]].parent_id = rcModelData[u]]
                       ELSE rcModels
        /\ rcPc' = [rcPc EXCEPT ![u] = "done"]
        /\ UNCHANGED <<rcSheet, rcParentId, rcModelData, exceptRace>>

-----------------------------------------------------------------------------
(* ARViewer of components/ARViewer.tsx: every await of startAR ends a step, *)
(* and the button can be clicked again while an earlier call is waiting.    *)

MaxClicks == 2
Calls == 1..MaxClicks

InitAR ==
    /\ arXr \in BOOLEAN
    /\ arSupported = "null"
    /\ arPc = [c \in Calls |-> "idle"]
    /\ arSession = [c \in Calls |-> "none"]
    /\ arListeners = [c \in Calls |-> FALSE]
    /\ arIsPlaced = [c \in Calls |-> FALSE]
    /\ arSessionRef = 0
    /\ arActive = FALSE
    /\ arPlaced = FALSE

\* session.end(): the session is shut down at once, its end event comes
\* later; on a session that has ended the call throws
end(sessions, c) ==
    IF sessions[c] = "active" THEN [sessions EXCEPT ![c] = "ending"] ELSE sessions

\* lines 18-26: the effect that sets supported
CheckSupport ==
    /\ arSupported = "null"
    /\ arSupported' \in (IF arXr THEN {"true", "false"} ELSE {"false"})
    /\ UNCHANGED <<arXr, arPc, arSession, arListeners, arIsPlaced, arSessionRef, arActive,
                   arPlaced>>
    /\ UNCHANGED exceptAR

\* lines 28-30, on a click of the button of lines 192-203: the canvas is
\* always mounted, so the call returns when navigator.xr is missing or
\* sessionRef.current is set, and goes on to the imports otherwise
StartAR(c) ==
    /\ arSupported # "false"
    /\ arPc[c] = "idle"
    /\ \A b \in Calls : b < c => arPc[b] # "idle"
    /\ arPc' = [arPc EXCEPT ![c] = IF ~arXr \/ arSessionRef # 0 THEN "done" ELSE "loading"]
    /\ UNCHANGED <<arXr, arSupported, arSession, arListeners, arIsPlaced, arSessionRef,
                   arActive, arPlaced>>
    /\ UNCHANGED exceptAR

\* lines 181-189: the catch block, on whatever session the ref holds
Catch(c) ==
    /\ arPc' = [arPc EXCEPT ![c] = "done"]
    /\ arSession' = IF arSessionRef # 0 THEN end(arSession, arSessionRef) ELSE arSession
    /\ arSessionRef' = 0
    /\ arActive' = FALSE
    /\ arPlaced' = FALSE
    /\ UNCHANGED <<arXr, arSupported, arListeners, arIsPlaced>>
    /\ UNCHANGED exceptAR

\* lines 32-89: the imports and the load of the model, which can fail, then
\* the call of navigator.xr.requestSession
Load(c) ==
    /\ arPc[c] = "loading"
    /\ \/ /\ arPc' = [arPc EXCEPT ![c] = "requesting"]
          /\ UNCHANGED <<arXr, arSupported, arSession, arListeners, arIsPlaced, arSessionRef,
                         arActive, arPlaced>>
          /\ UNCHANGED exceptAR
       \/ Catch(c)

\* lines 89-94: the request resolves with a session, which the ref takes,
\* or rejects; the device runs one immersive session at a time
RequestSession(c) ==
    /\ arPc[c] = "requesting"
    /\ \/ /\ \A b \in Calls : arSession[b] \notin {"active", "ending"}
          /\ arSession' = [arSession EXCEPT ![c] = "active"]
          /\ arSessionRef' = c
          /\ arPc' = [arPc EXCEPT ![c] = "setup"]
          /\ UNCHANGED <<arXr, arSupported, arListeners, arIsPlaced, arActive, arPlaced>>
          /\ UNCHANGED exceptAR
       \/ Catch(c)

\* lines 95-180: the reference spaces and the hit test source are requested
\* of a session that has not ended; then either the session has no hit
\* test and is ended (105), or the listeners are added and active is set
Setup(c) ==
    /\ arPc[c] = "setup"
    /\ \/ /\ arSession[c] = "active"
          /\ arListeners' = [arListeners EXCEPT ![c] = TRUE]
          /\ arActive' = TRUE
          /\ arPc' = [arPc EXCEPT ![c] = "done"]
          /\ UNCHANGED <<arXr, arSupported, arSession, arIsPlaced, arSessionRef, arPlaced>>
          /\ UNCHANGED exceptAR
       \/ /\ arSession[c] = "active"
          /\ arSession' = end(arSession, c)
          /\ arPc' = [arPc EXCEPT ![c] = "ending"]
          /\ UNCHANGED <<arXr, arSupported, arListeners, arIsPlaced, arSessionRef, arActive,
                         arPlaced>>
          /\ UNCHANGED exceptAR
       \/ Catch(c)

\* lines 105-107: session.end() has resolved
Ended(c) ==
    /\ arPc[c] = "ending"
    /\ arSession[c] = "ended"
    /\ arSessionRef' = 0
    /\ arPc' = [arPc EXCEPT ![c] = "done"]
    /\ UNCHANGED <<arXr, arSupported, arSession, arListeners, arIsPlaced, arActive, arPlaced>>
    /\ UNCHANGED exceptAR

\* lines 113-123: a tap while the reticle is visible
Select(c) ==
    /\ arSession[c] = "active"
    /\ arListeners[c]
    /\ ~arIsPlaced[c]
    /\ arIsPlaced' = [arIsPlaced EXCEPT ![c] = TRUE]
    /\ arPlaced' = TRUE
    /\ UNCHANGED <<arXr, arSupported, arPc, arSession, arListeners, arSessionRef, arActive>>
    /\ UNCHANGED exceptAR

\* line 214: the Exit AR button, shown while active
ExitAR ==
    /\ arActive
    /\ arSessionRef # 0
    /\ arSession[arSessionRef] = "active"
    /\ arSession' = end(arSession, arSessionRef)
    /\ UNCHANGED <<arXr, arSupported, arPc, arListeners, arIsPlaced, arSessionRef, arActive,
                   arPlaced>>
    /\ UNCHANGED exceptAR

\* the end event of a session, ended by the page or by the device; lines
\* 148-180 when the call had added its listener
SessionEnd(c) ==
    /\ arSession[c] \in {"active", "ending"}
    /\ arSession' = [arSession EXCEPT ![c] = "ended"]
    /\ IF arListeners[c]
       THEN arSessionRef' = 0 /\ arActive' = FALSE /\ arPlaced' = FALSE
       ELSE UNCHANGED <<arSessionRef, arActive, arPlaced>>
    /\ UNCHANGED <<arXr, arSupported, arPc, arListeners, arIsPlaced>>
    /\ UNCHANGED exceptAR

-----------------------------------------------------------------------------
(* Specifications *)

IdlePatch ==
    /\ patchIn = <<>>
    /\ patchPc = "idle"
    /\ patchOut = <<>>

IdleArgs ==
    /\ raw = <<>>
    /\ argPc = "idle"
    /\ args = <<>>

IdleIfc ==
    /\ ifcText = <<>>
    /\ ifcPc = "idle"
    /\ ifcOut = <<>>

IdleNodes ==
    /\ nodeDoc = <<>>
    /\ nodePc = "idle"
    /\ nodeOut = <<>>

IdleOptimize ==
    /\ optIn = <<>>
    /\ optPc = "idle"
    /\ optDoc = <<>>
    /\ optRan = <<>>
    /\ optFailed = <<>>

IdleUsdz ==
    /\ usdIn = <<>>
    /\ usdPc = "idle"
    /\ usdOut = <<>>

IdleZip ==
    /\ zipIn = <<>>
    /\ zipPc = "idle"
    /\ zipOut = <<>>

IdleRace ==
    /\ rcPc = <<>>
    /\ rcSheet = <<>>
    /\ rcParentId = <<>>
    /\ rcModelData = <<>>
    /\ rcModels = <<>>

IdleAR ==
    /\ arXr = FALSE
    /\ arSupported = "null"
    /\ arPc = <<>>
    /\ arSession = <<>>
    /\ arListeners = <<>>
    /\ arIsPlaced = <<>>
    /\ arSessionRef = 0
    /\ arActive = FALSE
    /\ arPlaced = FALSE

NextGlb == ParseGlb
GlbInit == InitGlb /\ IdleUpload /\ IdlePatch /\ IdleArgs /\ IdleIfc /\ IdleNodes /\ IdleOptimize /\ IdleUsdz /\ IdleZip /\ IdleRace /\ IdleAR
SpecGlb == GlbInit /\ [][NextGlb]_vars

NextUpload ==
    \/ Validate
    \/ Optimize
    \/ ParseIfcFile
    \/ ExtractAnnotations
    \/ StorageUpload
    \/ LookupParent
    \/ InsertModel
    \/ UpdateParent
    \/ Finish
    \/ NextRequest
UploadInit == IdleGlb /\ InitUpload /\ IdlePatch /\ IdleArgs /\ IdleIfc /\ IdleNodes /\ IdleOptimize /\ IdleUsdz /\ IdleZip /\ IdleRace /\ IdleAR
SpecUpload == UploadInit /\ [][NextUpload]_vars

NextPatch == PatchBounds
PatchInit == IdleGlb /\ IdleUpload /\ InitPatch /\ IdleArgs /\ IdleIfc /\ IdleNodes /\ IdleOptimize /\ IdleUsdz /\ IdleZip /\ IdleRace /\ IdleAR
SpecPatch == PatchInit /\ [][NextPatch]_vars

NextArgs == ParseArgs
ArgsInit == IdleGlb /\ IdleUpload /\ IdlePatch /\ InitArgs /\ IdleIfc /\ IdleNodes /\ IdleOptimize /\ IdleUsdz /\ IdleZip /\ IdleRace /\ IdleAR
SpecArgs == ArgsInit /\ [][NextArgs]_vars

NextIfc == ParseIfc
IfcInit == IdleGlb /\ IdleUpload /\ IdlePatch /\ IdleArgs /\ InitIfc /\ IdleNodes /\ IdleOptimize /\ IdleUsdz /\ IdleZip /\ IdleRace /\ IdleAR
SpecIfc == IfcInit /\ [][NextIfc]_vars

NextNodes == ExtractNodes
NodesInit == IdleGlb /\ IdleUpload /\ IdlePatch /\ IdleArgs /\ IdleIfc /\ InitNodes /\ IdleOptimize /\ IdleUsdz /\ IdleZip /\ IdleRace /\ IdleAR
SpecNodes == NodesInit /\ [][NextNodes]_vars

NextOptimize ==
    \/ ReadBinary
    \/ Transform
    \/ WriteBinaryOutput
OptimizeInit ==
    IdleGlb /\ IdleUpload /\ IdlePatch /\ IdleArgs /\ IdleIfc /\ IdleNodes /\ InitOptimize /\ IdleUsdz /\ IdleZip /\ IdleRace /\ IdleAR
SpecOptimize == OptimizeInit /\ [][NextOptimize]_vars

NextUsdz == ConvertGlbToUsdz
UsdzInit ==
    IdleGlb /\ IdleUpload /\ IdlePatch /\ IdleArgs /\ IdleIfc /\ IdleNodes /\ IdleOptimize /\ IdleRace /\ IdleAR
    /\ InitUsdz /\ IdleZip
SpecUsdz == UsdzInit /\ [][NextUsdz]_vars

NextZip == CreateUsdzZip
ZipInit ==
    IdleGlb /\ IdleUpload /\ IdlePatch /\ IdleArgs /\ IdleIfc /\ IdleNodes /\ IdleOptimize /\ IdleRace /\ IdleAR
    /\ IdleUsdz /\ InitZip
SpecZip == ZipInit /\ [][NextZip]_vars

NextRace ==
    \/ RaceLookup
    \/ RaceInsert
    \/ RaceUpdate
RaceInit ==
    IdleGlb /\ IdleUpload /\ IdlePatch /\ IdleArgs /\ IdleIfc /\ IdleNodes /\ IdleOptimize /\ IdleAR
    /\ IdleUsdz /\ IdleZip /\ InitRace
SpecRace == RaceInit /\ [][NextRace]_vars

NextAR ==
    \/ CheckSupport
    \/ \E c \in Calls : StartAR(c)
    \/ \E c \in Calls : Load(c)
    \/ \E c \in Calls : RequestSession(c)
    \/ \E c \in Calls : Setup(c)
    \/ \E c \in Calls : Ended(c)
    \/ \E c \in Calls : Select(c)
    \/ ExitAR
    \/ \E c \in Calls : SessionEnd(c)
ARInit ==
    IdleGlb /\ IdleUpload /\ IdlePatch /\ IdleArgs /\ IdleIfc /\ IdleNodes /\ IdleOptimize
    /\ IdleUsdz /\ IdleZip /\ IdleRace /\ InitAR
SpecAR == ARInit /\ [][NextAR]_vars

-----------------------------------------------------------------------------
(* Claims on the container reader and the upload route *)

MagicBytes == <<103, 108, 84, 70>>        \* "glTF"
JsonTypeBytes == <<74, 83, 79, 78>>       \* "JSON"

\* the declared length of chunk 0, from bytes 12..15
DeclaredLength(buf) == buf[13] + 256 * buf[14] + 65536 * buf[15] + 16777216 * buf[16]

\* the four ways a container is malformed, stated on the bytes
Malformed(buf) ==
    \/ Len(buf) < 20
    \/ SubSeq(buf, 1, 4) # MagicBytes
    \/ SubSeq(buf, 17, 20) # JsonTypeBytes
    \/ 20 + DeclaredLength(buf) > Len(buf)

\* C1: parseGlbAnnotations throws, returning no annotations, on every buffer
\* that is too short, has a wrong magic, a wrong first chunk type or a chunk
\* length past the end, and never reads an offset outside the buffer.
C1_RejectsMalformed ==
    glbPc = "done" =>
        /\ glbOut.reads \subseteq 0 .. (Len(buffer) - 1)
        /\ Malformed(buffer) => (glbOut.threw /\ glbOut.annotations = <<>>)

\* a container whose only fault is a chunk length one past the end was rejected
C1_Witness ==
    /\ glbPc = "done"
    /\ Len(buffer) >= 20
    /\ SubSeq(buffer, 1, 4) = MagicBytes
    /\ SubSeq(buffer, 17, 20) = JsonTypeBytes
    /\ 20 + DeclaredLength(buffer) = Len(buffer) + 1
    /\ glbOut.threw
    /\ glbOut.error = "chunk length"

ThisObjectStored == \E o \in storage : o.name = upCount
ThisRowInserted == \E i \in 1..Len(models) : models[i].file = upCount

\* C2 as claimed: a failed container parse rejects the upload, nothing is
\* stored and no row is inserted.
C2_ParseFailureRejects ==
    upParse = "threw" => (~ThisObjectStored /\ ~ThisRowInserted /\ upResponse # 200)

\* C2 as the route behaves: a failed container parse leaves the annotation
\* list empty and the upload goes on; it ends with status 200, the buffer
\* stored and a row with no annotations inserted, unless the storage upload
\* or the insert itself fails.
C2_ParseFailureContinues ==
    upParse = "threw" =>
        /\ upAnnotations = <<>>
        /\ upPc = "done" => (upResponse = 200 \/ upStorageError \/ upDbError)
        /\ (upPc = "done" /\ upResponse = 200) =>
              /\ [name |-> upCount, bytes |-> upBuffer] \in storage
              /\ \E i \in 1..Len(models) :
                    models[i].file = upCount /\ models[i].annotations = <<>>

\* the tests' eight-byte file: parsing failed, the upload returned 200
C2_Witness ==
    /\ upParse = "threw"
    /\ upFile = EightZeroBytes
    /\ upPc = "done"
    /\ upResponse = 200
    /\ ThisObjectStored
    /\ ThisRowInserted


-----------------------------------------------------------------------------
(* patchAccessorBounds *)

\* the accessors the pass is to give bounds
LacksBounds(a, gltf) ==
    /\ ~(a.hasMin /\ a.hasMax)
    /\ a.count > 0
    /\ a.componentType \in {5120, 5121, 5122, 5123, 5125, 5126}
    /\ a.type \in {"SCALAR", "VEC2", "VEC3", "VEC4", "MAT2", "MAT3", "MAT4"}
    /\ a.bufferView >= 0 /\ a.bufferView < Len(gltf.bufferViews)

\* the values of component j of accessor a in the payload bin
ValuesRead(a, gltf, bin, j) ==
    LET bv == gltf.bufferViews[a.bufferView + 1]
        size == COMPONENT_SIZES(a.componentType)
        packed == size * ELEMENT_COUNTS(a.type)
        step == IF bv.byteStride # 0 THEN bv.byteStride ELSE packed
    IN  {ReadComponent(a.componentType, bin,
                       bv.byteOffset + a.byteOffset + i * step + j * size) :
            i \in 0 .. (a.count - 1)}

Smallest(vals) == IF vals = {} THEN PosInfinity ELSE CHOOSE v \in vals : \A w \in vals : v <= w
Largest(vals) == IF vals = {} THEN NegInfinity ELSE CHOOSE v \in vals : \A w \in vals : w <= v

PatchDone == patchPc = "done" /\ ~patchOut.threw /\ patchIn.gltf.hasAccessors

C4_ContainerWellFormed ==
    PatchDone =>
        LET in == InputBuffer(patchIn)
            out == patchOut.bytes
            chunkLen == ReadUInt32LE(out, 12)
            text == Slice(out, 20, 20 + chunkLen)
        IN  /\ ReadUInt32LE(out, 8) = Len(out)
            /\ chunkLen % 4 = 0
            /\ StripSpace(text) = BufferFromUtf8(JsonStringify(patchOut.gltf))
            /\ Slice(out, 20 + chunkLen, Len(out))
                   = Slice(in, 20 + ReadUInt32LE(in, 12), Len(in))

-----------------------------------------------------------------------------
(* parseArgs *)

\* position k of str lies in a quoted string, or is one of its quotes
Quoted(str, k) ==
    str[k] = Quote \/ Cardinality({j \in 1..(k - 1) : str[j] = Quote}) % 2 = 1

\* the parentheses opened less those closed, outside quoted strings, in str[p..k]
Balance(str, p, k) ==
    Cardinality({j \in p..k : str[j] = "(" /\ ~Quoted(str, j)})
    - Cardinality({j \in p..k : str[j] = ")" /\ ~Quoted(str, j)})

\* str[p] opens the group that str[q] closes
Group(str, p, q) ==
    /\ p < q /\ str[p] = "(" /\ str[q] = ")"
    /\ ~Quoted(str, p) /\ ~Quoted(str, q)
    /\ Balance(str, p, q) = 0
    /\ \A k \in p..(q - 1) : Balance(str, p, k) > 0

\* the commas of str inside a parenthesised group and outside quoted strings
GroupCommas(str) ==
    {i \in 1..Len(str) :
        /\ str[i] = "," /\ ~Quoted(str, i)
        /\ \E p \in 1..(i - 1), q \in (i + 1)..Len(str) : Group(str, p, q)}

\* str without its i-th character
Without(str, i) == SubSeq(str, 1, i - 1) \o SubSeq(str, i + 1, Len(str))

\* no ")" outside a quoted string closes more than was opened
NeverOverClosed(str) == \A k \in 1..Len(str) : Balance(str, 1, k) >= 0

\* C5, as the code has it: for an argument text whose ")" never close more
\* than was opened, taking a comma out of a parenthesised group leaves the
\* number of arguments returned unchanged
C5_GroupCommasDoNotSplit ==
    argPc = "done" /\ NeverOverClosed(raw) =>
        \A i \in GroupCommas(raw) : Len(parseArgs(Without(raw, i))) = Len(args)

\* a,(a,(a,a)),$ gives three arguments, the nested group one of them
C5_Witness ==
    /\ argPc = "done"
    /\ raw = <<"a", ",", "(", "a", ",", "(", "a", ",", "a", ")", ")", ",", "$">>
    /\ GroupCommas(raw) = {5, 8}
    /\ args = <<<<"a">>, <<"(", "a", ",", "(", "a", ",", "a", ")", ")">>, <<"$">>>>

\* C5 as claimed: for any argument text, changing how many commas appear
\* inside a nested parenthesised group leaves the number of arguments unchanged
C5_AnyTextGroupCommas ==
    argPc = "done" =>
        \A i \in GroupCommas(raw) : Len(parseArgs(Without(raw, i))) = Len(args)

\* str is one quoted string: a quote, text whose quotes come in pairs, a quote
RECURSIVE PairedQuotes(_)
PairedQuotes(str) ==
    IF Len(str) = 0 THEN TRUE
    ELSE IF str[1] # Quote THEN PairedQuotes(SubSeq(str, 2, Len(str)))
    ELSE Len(str) >= 2 /\ str[2] = Quote /\ PairedQuotes(SubSeq(str, 3, Len(str)))

QuotedString(str) ==
    /\ Len(str) >= 2 /\ str[1] = Quote /\ str[Len(str)] = Quote
    /\ PairedQuotes(SubSeq(str, 2, Len(str) - 1))

\* the characters of str that are not quotes, in order
Unquoted(str) == SelectSeq(str, LAMBDA c : c # Quote)

\* C6: a quoted string followed by a comma is one argument of its own,
\* whatever doubled quotes, commas and parentheses it holds (the empty
\* string '' included), the arguments after it are those of the rest of the
\* text, and strArg makes each doubled quote of it one quote
C6_QuotedStringIsOneArgument ==
    argPc = "done" =>
        \A k \in 2..(Len(raw) - 1) :
            QuotedString(SubSeq(raw, 1, k)) /\ raw[k + 1] = "," =>
                LET inner == SubSeq(raw, 2, k - 1) IN
                /\ args = <<SubSeq(raw, 1, k)>> \o parseArgs(SubSeq(raw, k + 2, Len(raw)))
                /\ Unquoted(strArg(args[1])) = Unquoted(inner)
                /\ 2 * (Len(strArg(args[1])) - Len(Unquoted(inner)))
                       = Len(inner) - Len(Unquoted(inner))

\* '(,',(')',a),a : a string of a parenthesis and a comma, a group holding a
\* string of a parenthesis, and a last argument
C6_Witness ==
    /\ argPc = "done"
    /\ raw = <<Quote, "(", ",", Quote, ",", "(", Quote, ")", Quote, ",", "a", ")", ",", "a">>
    /\ args = <<<<Quote, "(", ",", Quote>>,
                <<"(", Quote, ")", Quote, ",", "a", ")">>, <<"a">>>>
    /\ strArg(args[1]) = <<"(", ",">>

-----------------------------------------------------------------------------
(* parseIfcBuffer *)

IfcDone == ifcPc = "done"

\* declaration d has the shape #<id> = <TYPE>(<args>); from its first to its
\* last character
Shaped(d) == LineMatch(d.text, 1).ok /\ LineMatch(d.text, 1).last = Len(d.text)

\* C7: parseIfcBuffer returns a list of elements for every text, and a
\* declaration that does not have the shape is skipped without keeping the
\* well-formed declarations before and after it from being parsed: every
\* declaration of the file that has the shape (the last one of its id) is
\* an entity with its own type and arguments, and no other id is an entity
C7_MalformedSkipped ==
    IfcDone =>
        /\ Len(ifcOut.results) = Len(ifcOut.elementIds)
        /\ \A k \in 1..Len(ifcText) :
            LET d == ifcText[k] IN
            IF Shaped(d)
            THEN (\A l \in (k + 1)..Len(ifcText) : ifcText[l].id # d.id \/ ~Shaped(ifcText[l]))
                 => /\ MapHas(ifcOut.entities, d.id)
                    /\ MapGet(ifcOut.entities, d.id).type = LineMatch(d.text, 1).type
                    /\ MapGet(ifcOut.entities, d.id).args
                           = parseArgs(LineMatch(d.text, 1).argsRaw)
            ELSE (\A l \in 1..Len(ifcText) : ifcText[l].id # d.id \/ ~Shaped(ifcText[l]))
                 => ~MapHas(ifcOut.entities, d.id)

\* the properties of the only element of the file
OnlyProperties == ifcOut.results[1].properties

FirstDeclared(id) == SetMin({k \in 1..Len(ifcText) : ifcText[k].id = id})

\* C9: of two property sets of element #5 that both define Span (4 by the
\* set of relationship a, 6 by the set of relationship b) the value kept is
\* that of the relationship whose id is declared later in the file, and
\* Grade and Fire, each defined by one set only, are both kept
C9_LaterRelationshipWins ==
    IfcDone =>
        \A a \in RelIds, b \in RelIds :
            RelA(a) \in Range(ifcText) /\ RelB(b) \in Range(ifcText) =>
                OnlyProperties =
                    [key \in {Span, Grade, Fire} |->
                        IF key = Grade THEN S355
                        ELSE IF key = Fire THEN R60
                        ELSE IF FirstDeclared(a) < FirstDeclared(b) THEN <<"6">> ELSE <<"4">>]

\* id 32 is declared first, by a placeholder; relationship 31 is declared
\* next and relationship 32 after it: 32 is processed first and 31 wins
C9_Witness ==
    /\ IfcDone
    /\ Len(ifcText) >= 4
    /\ ifcText[1] = Placeholder(32) /\ ifcText[2] = RelB(31) /\ ifcText[4] = RelA(32)
    /\ OnlyProperties[Span] = <<"6">>
    /\ DOMAIN OnlyProperties = {Span, Grade, Fire}

\* C10: an element whose association resolves by any of the four forms
\* (material, layer set, layer, material list) gets a Material property
\* with the name the form resolves to
C10_MaterialChain ==
    IfcDone =>
        \A c \in MaterialForms :
            Assoc40 \in Range(ifcText) /\ Mat50(c.form) \in Range(ifcText) =>
                /\ Material \in DOMAIN OnlyProperties
                /\ OnlyProperties[Material] = c.name

-----------------------------------------------------------------------------
(* The node loop *)

NodesDone == nodePc = "done" /\ ~nodeOut.threw

\* the entries (1-based) whose name is a string with a character that is not
\* white space
NamedEntries ==
    {k \in 1..Len(nodeDoc.nodes) :
        /\ nodeDoc.nodes[k].kind = "node"
        /\ nodeDoc.nodes[k].name.kind = "string"
        /\ \E c \in Range(nodeDoc.nodes[k].name.text) : c \notin WhiteSpace}

\* the 0-based index an annotation's id names, and the entry at that index
IndexOf(ann) == CHOOSE index \in 0..(Len(nodeDoc.nodes) - 1) : ann.id = AnnId(index)
NodeOf(ann) == nodeDoc.nodes[IndexOf(ann) + 1]

\* C11: when the loop returns, the annotations are one for each entry whose name
\* is a string that is not empty after trimming and none for any other entry;
\* the label is the name as it is, the id is "ann_" and the entry's index, the
\* ids are pairwise distinct and the annotations are in increasing index order.
C11_OneAnnotationPerNamedNode ==
    NodesDone =>
        LET anns == nodeOut.annotations IN
        /\ Len(anns) = Cardinality(NamedEntries)
        /\ \A k \in NamedEntries :
              \E i \in 1..Len(anns) :
                  /\ anns[i].id = <<"a", "n", "n", "_">> \o NatDigits(k - 1)
                  /\ anns[i].label = nodeDoc.nodes[k].name.text
        /\ \A i \in 1..Len(anns) :
              \E k \in NamedEntries : anns[i].id = <<"a", "n", "n", "_">> \o NatDigits(k - 1)
        /\ \A i, j \in 1..Len(anns) :
              i < j => anns[i].id # anns[j].id /\ IndexOf(anns[i]) < IndexOf(anns[j])

\* a list whose first entry has a name of white space only and whose second
\* entry is named: one annotation, of index 1
C11_Witness ==
    /\ NodesDone
    /\ Len(nodeDoc.nodes) = 2
    /\ nodeDoc.nodes[1] = NamedNode(<<" ", " ">>)
    /\ nodeDoc.nodes[2] = NamedNode(<<"A">>)
    /\ Len(nodeOut.annotations) = 1
    /\ nodeOut.annotations[1].id = <<"a", "n", "n", "_", "1">>

\* a translation of at least three entries, a matrix of sixteen
IsVector(v) == v.kind = "array" /\ Len(v.items) >= 3
IsMatrix(v) == v.kind = "array" /\ Len(v.items) = 16

\* C12: the position of an annotation is the first three entries of the node's
\* translation when it has one (whether or not it has a matrix), otherwise
\* entries 12, 13, 14 of its matrix when it has one, otherwise (0, 0, 0).
C12_PositionOfNode ==
    NodesDone =>
        \A i \in 1..Len(nodeOut.annotations) :
            LET node == NodeOf(nodeOut.annotations[i])
                position == nodeOut.annotations[i].position
                t == node.translation.items
                m == node.matrix.items
            IN
            /\ IsVector(node.translation)
                  => position = [x |-> t[1], y |-> t[2], z |-> t[3]]
            /\ ~IsVector(node.translation) /\ IsMatrix(node.matrix)
                  => position = [x |-> m[12 + 1], y |-> m[13 + 1], z |-> m[14 + 1]]
            /\ ~IsVector(node.translation) /\ ~IsMatrix(node.matrix)
                  => position = [x |-> JsNumber(0), y |-> JsNumber(0), z |-> JsNumber(0)]

\* a node with a translation and a matrix: the translation is used
C12_Witness ==
    /\ NodesDone
    /\ Len(nodeOut.annotations) = 1
    /\ IsVector(nodeDoc.nodes[1].translation)
    /\ IsMatrix(nodeDoc.nodes[1].matrix)
    /\ nodeOut.annotations[1].position
          = [x |-> JsNumber(0 - 2), y |-> JsNumber(0 - 1), z |-> JsNumber(0)]

\* custom data that is an object with at least one key
CustomData(node) == node.extras.kind = "object" /\ DOMAIN node.extras.fields # {}

\* C13: the metadata of a node whose custom data is a non-empty object has
\* exactly the custom data's keys, each mapped to the string form of its value;
\* nothing read from the name is added.
C13_MetadataFromCustomData ==
    NodesDone =>
        \A i \in 1..Len(nodeOut.annotations) :
            LET node == NodeOf(nodeOut.annotations[i])
                metadata == nodeOut.annotations[i].metadata
            IN  CustomData(node) =>
                    /\ DOMAIN metadata = DOMAIN node.extras.fields
                    /\ \A key \in DOMAIN metadata :
                          LET v == node.extras.fields[key] IN
                          /\ metadata[key] = StringOf(v)
                          /\ v.kind = "string" => metadata[key] = v.text
                          /\ v = JsNumber(42) => metadata[key] = <<"4", "2">>
                          /\ v = JsBoolean(TRUE) => metadata[key] = <<"t", "r", "u", "e">>
                          /\ v = JsNull => metadata[key] = <<"n", "u", "l", "l">>

\* the node "A [1]" with the custom data {"k": 42}
C13_Witness ==
    /\ NodesDone
    /\ Len(nodeOut.annotations) = 1
    /\ nodeOut.annotations[1].label = <<"A", " ", "[", "1", "]">>
    /\ nodeDoc.nodes[1].extras = JsObject([key \in {<<"k">>} |-> JsNumber(42)])
    /\ nodeOut.annotations[1].metadata = [key \in {<<"k">>} |-> <<"4", "2">>]

\* the pairs <<p, q>> of a "[" and a "]" of the name with digits, and at least
\* one, between them
Brackets(name) ==
    {pq \in (1..Len(name)) \X (1..Len(name)) :
        /\ pq[1] + 1 < pq[2]
        /\ name[pq[1]] = "[" /\ name[pq[2]] = "]"
        /\ \A k \in (pq[1] + 1)..(pq[2] - 1) : name[k] \in Digits}
FirstBracket(name) == CHOOSE pq \in Brackets(name) : \A o \in Brackets(name) : pq[1] <= o[1]

\* the text before the last " [" of the name, trimmed; empty when there is none
BeforeLastSpaceBracket(name) ==
    LET places == {p \in 1..(Len(name) - 1) : name[p] = " " /\ name[p + 1] = "["} IN
    IF places = {} THEN <<>>
    ELSE Trim(SubSeq(name, 1, (CHOOSE p \in places : \A o \in places : o <= p) - 1))

\* C14 as stated: without custom data the metadata is read from the name only
\* when the name ends in "[digits]", and is then the two fields revit_element_id
\* (the digits) and family_type (the trimmed text before the bracket); for
\* every other name it is empty.
C14_EndingBracketOnly ==
    NodesDone =>
        \A i \in 1..Len(nodeOut.annotations) :
            LET node == NodeOf(nodeOut.annotations[i])
                name == node.name.text
                metadata == nodeOut.annotations[i].metadata
                ending == {pq \in Brackets(name) : pq[2] = Len(name)}
            IN  ~CustomData(node) =>
                    IF ending = {} THEN metadata = EmptyObject
                    ELSE LET pq == CHOOSE o \in ending : TRUE IN
                         metadata = [key \in {revit_element_id, family_type} |->
                                        IF key = revit_element_id
                                        THEN SubSeq(name, pq[1] + 1, pq[2] - 1)
                                        ELSE Trim(SubSeq(name, 1, pq[1] - 1))]

\* C14: without custom data the metadata is empty exactly when the name holds
\* no "[digits]"; otherwise revit_element_id is the digits of the first
\* "[digits]" of the name, wherever it stands, and family_type, present only
\* when it is not empty, is the trimmed text before the last " [" of the name;
\* there is no other field.
C14_MetadataFromName ==
    NodesDone =>
        \A i \in 1..Len(nodeOut.annotations) :
            LET node == NodeOf(nodeOut.annotations[i])
                name == node.name.text
                metadata == nodeOut.annotations[i].metadata
                family == BeforeLastSpaceBracket(name)
            IN  ~CustomData(node) =>
                    IF Brackets(name) = {} THEN metadata = EmptyObject
                    ELSE /\ DOMAIN metadata
                              = {revit_element_id} \cup (IF family = <<>> THEN {} ELSE {family_type})
                         /\ metadata[revit_element_id]
                              = SubSeq(name, FirstBracket(name)[1] + 1, FirstBracket(name)[2] - 1)
                         /\ family # <<>> => metadata[family_type] = family

\* the name "Steel Beam [424461]"
C14_Witness ==
    /\ NodesDone
    /\ Len(nodeOut.annotations) = 1
    /\ nodeOut.annotations[1].label = <<"S", "t", "e", "e", "l", " ", "B", "e", "a", "m", " ", "[", "4", "2", "4", "4", "6", "1", "]">>
    /\ nodeDoc.nodes[1].extras = JsUndefined
    /\ nodeOut.annotations[1].metadata
          = [key \in {revit_element_id, family_type} |->
                IF key = revit_element_id THEN <<"4", "2", "4", "4", "6", "1">> ELSE <<"S", "t", "e", "e", "l", " ", "B", "e", "a", "m">>]

-----------------------------------------------------------------------------
(* The merge of the exchange file's properties in the upload route *)

\* the annotations parseGlbAnnotations gives for the request's buffer
ContainerAnnotations ==
    LET out == parseGlbAnnotations(upBuffer) IN IF out.threw THEN <<>> ELSE out.annotations

EndsWith(str, suffix) ==
    Len(str) >= Len(suffix) /\ SubSeq(str, Len(str) - Len(suffix) + 1, Len(str)) = suffix

\* the parsed elements whose name ends in ":" and the digits d
ElementsNamed(d) == {k \in 1..Len(upIfcElements) : EndsWith(upIfcElements[k].name, <<":">> \o d)}

\* the elements the first bracketed identifier of a label names
ElementsOfLabel(label) ==
    IF Brackets(label) = {} THEN {}
    ELSE ElementsNamed(SubSeq(label, FirstBracket(label)[1] + 1, FirstBracket(label)[2] - 1))

\* C15 as stated: an annotation whose label contains a bracketed identifier
\* [d], with an element whose name ends in ":d", has exactly that element's
\* properties as metadata and its id, label and position unchanged; every
\* other annotation is unchanged.
C15_AnyBracketAnyElement ==
    upParse = "ok" =>
        /\ Len(upAnnotations) = Len(ContainerAnnotations)
        /\ \A i \in 1..Len(upAnnotations) :
              LET before == ContainerAnnotations[i]
                  after == upAnnotations[i]
                  pairs == {e \in Brackets(before.label) \X (1..Len(upIfcElements)) :
                               e[2] \in ElementsNamed(SubSeq(before.label, e[1][1] + 1, e[1][2] - 1))}
              IN  IF pairs = {} THEN after = before
                  ELSE /\ \A e \in pairs : after.metadata = upIfcElements[e[2]].properties
                       /\ after.id = before.id
                       /\ after.label = before.label
                       /\ after.position = before.position

\* C15: an annotation whose label's first bracketed identifier is [d], with
\* an element whose name ends in ":d", has exactly the properties of the last
\* such element as metadata, none of its previous keys, and its id, label and
\* position unchanged; every other annotation is unchanged.
C15_EnrichmentReplaces ==
    upParse = "ok" =>
        /\ Len(upAnnotations) = Len(ContainerAnnotations)
        /\ \A i \in 1..Len(upAnnotations) :
              LET before == ContainerAnnotations[i]
                  after == upAnnotations[i]
                  elements == ElementsOfLabel(before.label)
              IN  IF elements = {} THEN after = before
                  ELSE /\ after.metadata = upIfcElements[SetMax(elements)].properties
                       /\ after.id = before.id
                       /\ after.label = before.label
                       /\ after.position = before.position

\* the label "A [5]" and the element B:5 with Span and Material: the metadata
\* read from the name is replaced
C15_Witness ==
    /\ upParse = "ok"
    /\ upIfcFile = IfcOf(PropertiesOfB5)
    /\ Len(upAnnotations) = 4
    /\ revit_element_id \in DOMAIN ContainerAnnotations[1].metadata
    /\ upAnnotations[1].label = <<"A", " ", "[", "5", "]">>
    /\ upAnnotations[1].metadata
          = [key \in {Span, Material} |-> IF key = Span THEN <<"4">> ELSE <<"S", "t", "e", "e", "l">>]

\* C16: in the body of a 200 response both counts are at least 0, ifcEnriched
\* is the number of annotations whose metadata was replaced by an element's
\* properties, and ifcEnriched + glbOnly is the number of annotations returned.
C16_CountsAddUp ==
    upResponse = 200 =>
        /\ upBody.ifcEnriched >= 0
        /\ upBody.glbOnly >= 0
        /\ upBody.ifcEnriched
              = Cardinality({i \in 1..Len(upBody.annotations) :
                                ElementsOfLabel(upBody.annotations[i].label) # {}})
        /\ upBody.ifcEnriched + upBody.glbOnly = Len(upBody.annotations)

\* a response with two annotations enriched and two not
C16_Witness ==
    /\ upResponse = 200
    /\ Len(upBody.annotations) = 4
    /\ upBody.ifcEnriched = 2
    /\ upBody.glbOnly = 2

\* C17: a request with an 'ifc' file ends with status 500 only when the
\* storage upload or the insert fails; when reading the file throws or gives
\* no element the request goes on to the storage upload, the annotations are
\* those of the container, ifcEnriched is 0 and glbOnly their number, and a 200
\* response has stored the buffer and inserted the row with them.
C17_IfcFailureDoesNotBlock ==
    upIfcFile.given =>
        /\ upResponse = 500 => (upStorageError \/ upDbError)
        /\ (upParse # "none" /\ upIfcElements = <<>>) =>
              /\ upPc \in {"store", "lookup", "insert", "update", "respond", "done"}
              /\ upAnnotations = ContainerAnnotations
              /\ upIfcEnriched = 0
              /\ upGlbOnly = Len(upAnnotations)
              /\ upResponse = 200 =>
                    /\ [name |-> upCount, bytes |-> upBuffer] \in storage
                    /\ \E i \in 1..Len(models) :
                          models[i].file = upCount /\ models[i].annotations = ContainerAnnotations
                    /\ upBody.ifcEnriched = 0
                    /\ upBody.glbOnly = Len(ContainerAnnotations)

\* an 'ifc' file that cannot be read and one without elements, each with a
\* container of four annotations: status 200
C17_Witness ==
    /\ upIfcFile \in {UnreadableIfc, IfcOf(<<Header>>)}
    /\ upResponse = 200
    /\ Len(upAnnotations) = 4
    /\ upBody.glbOnly = 4
    /\ ThisObjectStored
    /\ ThisRowInserted

-----------------------------------------------------------------------------
(* The optimizer *)

\* C18 as stated: after a transform has thrown, with transforms still to
\* call, the pipeline goes on (the next transform is called).
C18_FailingPassContinues ==
    (optFailed # <<>> /\ Len(optRan) < Len(Pipeline(optIn))) => optPc = "transform"

\* C18: a transform that throws ends optimizeGlbForAR: it is the last one
\* called, the only one that failed, the call has thrown, and a call that
\* returns a container has called every transform and none has thrown.
C18_FailingPassAborts ==
    /\ optFailed # <<>> =>
          /\ optPc = "threw"
          /\ optFailed = <<optRan[Len(optRan)]>>
          /\ optRan = SubSeq(Pipeline(optIn), 1, Len(optRan))
    /\ optPc = "done" => (optFailed = <<>> /\ optRan = Pipeline(optIn))

C18_Witness ==
    /\ optFailed # <<>>
    /\ Len(optRan) < Len(Pipeline(optIn))
    /\ optPc = "threw"

\* the primitive of the input that a primitive of the document was
InputModeOf(prim) ==
    LET k == CHOOSE i \in 1..Len(optIn.document.primitives) :
                 optIn.document.primitives[i].id = prim.id
    IN  optIn.document.primitives[k].mode

\* C19: in the document optimizeGlbForAR writes, no primitive is one whose
\* mode in the input was other than TRIANGLES, and every primitive of the
\* input whose mode was TRIANGLES is still there.
C19_NonTrianglesDeleted ==
    optPc = "done" =>
        /\ \A k \in 1..Len(optDoc.primitives) : InputModeOf(optDoc.primitives[k]) = TRIANGLES
        /\ \A i \in 1..Len(optIn.document.primitives) :
              optIn.document.primitives[i].mode = TRIANGLES =>
                  \E k \in 1..Len(optDoc.primitives) :
                      optDoc.primitives[k].id = optIn.document.primitives[i].id

\* two texts equal but for the case of their letters
SameIgnoringCase(a, b) ==
    /\ Len(a) = Len(b)
    /\ \A k \in 1..Len(a) :
          \/ a[k] = b[k]
          \/ \E i \in 1..Len(UpperLetters) : {a[k], b[k]} = {UpperLetters[i], LowerLetters[i]}

\* applyColorMap has just returned
AfterColorMap ==
    /\ optRan # <<>>
    /\ optRan[Len(optRan)] = "applyColorMap"
    /\ optFailed = <<>>

\* the entries of the colour map whose key is the name but for case
Matching(name) ==
    {e \in 1..Len(optIn.colorMap.entries) :
        SameIgnoringCase(name, optIn.colorMap.entries[e].key)}

InputMaterial(id) ==
    optIn.document.materials[CHOOSE k \in 1..Len(optIn.document.materials) :
                                 optIn.document.materials[k].id = id]

InRange(v) == v \in 0..10

\* the colour a material of the written document came with or was given by
\* the colour map
ColorBeforePBR(material) ==
    LET matching == Matching(material.name)
        last == optIn.colorMap.entries[SetMax(matching)]
    IN  IF optIn.module = "part_007" /\ matching # {} /\ Len(last.color) >= 4
        THEN SubSeq(last.color, 1, 4)
        ELSE InputMaterial(material.id).baseColorFactor

\* C21: in the document optimizeGlbForAR writes, every material's base
\* colour has four components from 0 to 1, and a material whose colour had a
\* component that is not has the colour [0.8, 0.8, 0.8, 1.0].
C21_BaseColorInRange ==
    optPc = "done" =>
        \A k \in 1..Len(optDoc.materials) :
            LET material == optDoc.materials[k] IN
            /\ Len(material.baseColorFactor) = 4
            /\ \A i \in 1..4 : InRange(material.baseColorFactor[i])
            /\ (material.name # <<"D", "e", "f", "a", "u", "l", "t">>
                  /\ \E i \in 1..4 : ~InRange(ColorBeforePBR(material)[i]))
               => material.baseColorFactor = DefaultColor

\* the materials of the written document that the input did not have
Synthesized ==
    {k \in 1..Len(optDoc.materials) :
        \A i \in 1..Len(optIn.document.materials) :
            optIn.document.materials[i].id # optDoc.materials[k].id}

InputPrimitive(id) ==
    optIn.document.primitives[CHOOSE i \in 1..Len(optIn.document.primitives) :
                                  optIn.document.primitives[i].id = id]

\* C22: in the document optimizeGlbForAR writes, every primitive has a
\* POSITION attribute and a material; the primitives that came without a
\* material have the one synthesized material, and there is at most one.
C22_PositionAndMaterial ==
    optPc = "done" =>
        /\ \A k \in 1..Len(optDoc.primitives) :
              /\ optDoc.primitives[k].position
              /\ optDoc.primitives[k].material # 0
              /\ InputPrimitive(optDoc.primitives[k].id).material = 0 =>
                    \E m \in Synthesized :
                        optDoc.materials[m].id = optDoc.primitives[k].material
        /\ Cardinality(Synthesized) <= 1

\* C23: every TRIANGLES primitive of the document optimizeGlbForAR writes
\* has a count that is a multiple of 3, and convertGlbToUsdz gives a
\* primitive of count n a faceVertexCounts of n/3 entries, each 3.
C23_WholeTriangles ==
    optPc = "done" =>
        \A k \in 1..Len(optDoc.primitives) :
            LET prim == optDoc.primitives[k] IN
            prim.mode = TRIANGLES =>
                /\ prim.count % 3 = 0
                /\ Len(FaceVertexCounts(prim.count)) * 3 = prim.count
                /\ \A i \in 1..Len(FaceVertexCounts(prim.count)) :
                      FaceVertexCounts(prim.count)[i] = 3

-----------------------------------------------------------------------------
(* The archive converter *)

\* C24: the mesh names of one emitted document are pairwise distinct, are
\* made of letters, digits and '_' only, and do not start with a digit.
C24_MeshNamesDistinct ==
    usdPc = "done" =>
        /\ \A i, j \in 1..Len(usdOut.meshDefs) :
              i # j => usdOut.meshDefs[i].meshName # usdOut.meshDefs[j].meshName
        /\ \A i \in 1..Len(usdOut.meshDefs) :
              LET name == usdOut.meshDefs[i].meshName IN
              /\ name # <<>>
              /\ \A k \in 1..Len(name) : name[k] \in IdentifierChars
              /\ name[1] \notin Digits

\* nodes named 'A', 'A' and 'A_1' are emitted as A, A_1 and A_1_1
C24_Witness ==
    /\ usdPc = "done"
    /\ Len(usdIn.nodes) = 3
    /\ usdIn.nodes[1].name = <<"A">>
    /\ usdIn.nodes[2].name = <<"A">>
    /\ usdIn.nodes[3].name = <<"A", "_", "1">>
    /\ Len(usdOut.meshDefs) = 3
    /\ usdOut.meshDefs[2].meshName = <<"A", "_", "1">>
    /\ usdOut.meshDefs[3].meshName = <<"A", "_", "1", "_", "1">>

\* C28: every material binding of an emitted document names a material
\* that the document defines.
C28_BindingsDefined ==
    usdPc = "done" =>
        \A i \in 1..Len(usdOut.meshDefs) :
            \E k \in 1..Len(usdOut.materialDefs) :
                usdOut.materialDefs[k] = usdOut.meshDefs[i].materialBinding

\* the fields of the local file header of the archive
NameLength == ReadUInt16LE(zipOut, 26)
UncompressedSize == ReadUInt32LE(zipOut, 22)
DataOffset == 30 + NameLength

\* C25: the data of the one entry begins at a multiple of 64, 30 + the
\* name-length field of the local header, the name being 'model.usda' and
\* zero bytes; from there the archive has the payload, as many bytes as the
\* uncompressed size says, and then the central directory.
C25_DataAligned ==
    zipPc = "done" =>
        /\ DataOffset % 64 = 0
        /\ SubSeq(zipOut, 31, 30 + Len(fileName)) = fileName
        /\ \A k \in (31 + Len(fileName))..DataOffset : zipOut[k] = 0
        /\ UncompressedSize = Len(BufferFromUtf8(zipIn))
        /\ SubSeq(zipOut, DataOffset + 1, DataOffset + UncompressedSize) = BufferFromUtf8(zipIn)
        /\ ReadUInt32LE(zipOut, DataOffset + UncompressedSize) = 33639248

\* a payload with characters of two and three bytes, at offset 64
C25_Witness ==
    /\ zipPc = "done"
    /\ DataOffset = 64
    /\ UncompressedSize > Len(zipIn)
    /\ Len(zipIn) > 1

\* CRC-32 one bit of the data at a time: the register starts as all ones,
\* each data bit, the lowest of a byte first, is compared with the lowest
\* bit of the register, the register is halved and, when the two differed,
\* has 0xEDB88320 added without carry; the result is inverted
RECURSIVE StandardCrc(_, _, _)
StandardCrc(data, bit, register) ==
    IF bit = 8 * Len(data)
    THEN Word32(65535 - register.hi, 65535 - register.lo)
    ELSE LET dataBit == (data[(bit \div 8) + 1] \div (2 ^ (bit % 8))) % 2
             halved == Word32(register.hi \div 2,
                              (register.lo \div 2) + 32768 * (register.hi % 2))
             next == IF register.lo % 2 # dataBit
                     THEN Word32(Xor(halved.hi, 60856, 16), Xor(halved.lo, 33568, 16))
                     ELSE halved
         IN  IF next.lo >= 0 THEN StandardCrc(data, bit + 1, next) ELSE next

\* C26: crc32 of the payload is its standard CRC-32 (0xE8B7BE43 for 'a',
\* 0x352441C2 for 'abc', 0xCBF43926 for '123456789', 0 for no byte), and
\* the archive has it at offset 14 of the local file header and at offset
\* 16 of the central directory record.
C26_StandardCrc ==
    zipPc = "done" =>
        LET data == BufferFromUtf8(zipIn)
            crc == crc32(data)
        IN  /\ crc = StandardCrc(data, 0, AllOnes)
            /\ crc.hi \in 0..65535 /\ crc.lo \in 0..65535
            /\ zipIn = <<>> => Word32LE(crc) = <<0, 0, 0, 0>>
            /\ zipIn = <<97>> => Word32LE(crc) = <<67, 190, 183, 232>>
            /\ zipIn = <<97, 98, 99>> => Word32LE(crc) = <<194, 65, 36, 53>>
            /\ zipIn = <<49, 50, 51, 52, 53, 54, 55, 56, 57>> => Word32LE(crc) = <<38, 57, 244, 203>>
            /\ SubSeq(zipOut, 15, 18) = Word32LE(crc)
            /\ SubSeq(zipOut, DataOffset + Len(data) + 17, DataOffset + Len(data) + 20)
                 = Word32LE(crc)

C26_Witness ==
    /\ zipPc = "done"
    /\ zipIn = <<49, 50, 51, 52, 53, 54, 55, 56, 57>>
    /\ SubSeq(zipOut, 15, 18) = <<38, 57, 244, 203>>

-----------------------------------------------------------------------------
(* Revisions of a sheet *)

\* every request has ended
RaceOver == \A u \in Uploaders : rcPc[u] \in {"done", "failed"}

\* C27: when the requests have ended, every row of a sheet has as its
\* parent_id the id of the first row created for that sheet.
C27_OneParentPerSheet ==
    RaceOver =>
        \A k \in 1..Len(rcModels) :
            rcModels[k].sheet_number # "" =>
                rcModels[k].parent_id
                    = rcModels[FirstOfSheet(rcModels, rcModels[k].sheet_number, 1)].id

-----------------------------------------------------------------------------
(* The order of optimization and extraction in the upload route *)

\* C29: the annotations are extracted after the optimization step, from
\* the buffer it left: the optimizer's container, or the uploaded bytes;
\* annotations read from an optimizer's container that differs from the
\* upload have no metadata but what the node's name gives.
C29_ExtractionAfterOptimization ==
    /\ upPc \in {"validate", "optimize", "ifc", "annotate"} =>
          (upParse = "none" /\ upAnnotations = <<>>)
    /\ upParse # "none" =>
          /\ upBuffer \in OptimizedOutputs \cup {upFile}
          /\ LET out == parseGlbAnnotations(upBuffer) IN
             /\ out.threw <=> upParse = "threw"
             /\ (~out.threw /\ upIfcEnriched = 0) => upAnnotations = out.annotations
    /\ (upParse = "ok" /\ upBuffer # upFile /\ upIfcEnriched = 0) =>
          \A k \in 1..Len(upAnnotations) :
              DOMAIN upAnnotations[k].metadata \subseteq {revit_element_id, family_type}

\* the upload with custom data in its fourth node, optimized: four
\* annotations, the fourth with the metadata of its name
C29_Witness ==
    /\ upParse = "ok"
    /\ upFile = WellFormedBrackets
    /\ upBuffer = WellFormedCleaned
    /\ upIfcEnriched = 0
    /\ Len(upAnnotations) = 4
    /\ DOMAIN upAnnotations[4].metadata = {revit_element_id, family_type}

-----------------------------------------------------------------------------
(* The AR viewer *)

\* the calls of startAR that have passed the guard and not returned
InFlight == {c \in Calls : arPc[c] \in {"loading", "requesting", "setup", "ending"}}

\* the sessions asked of the device and not yet granted or refused, and
\* the sessions running
RequestedOrActive == {c \in Calls : arPc[c] = "requesting" \/ arSession[c] = "active"}

\* C30: at most one AR session is requested or active; a call of startAR
\* made while another is loading or a session is active returns without
\* a request; and once every call has returned and every session has
\* ended, the ref is null and active and placed are false.
C30_AtMostOneSession ==
    /\ Cardinality(RequestedOrActive) <= 1
    /\ Cardinality(InFlight \cup {c \in Calls : arSession[c] = "active"}) <= 1
    /\ (/\ InFlight = {}
        /\ \A c \in Calls : arSession[c] \in {"none", "ended"}) =>
          (arSessionRef = 0 /\ ~arActive /\ ~arPlaced)

=============================================================================
